---- MODULE Spec2Model ----
(***************************************************************************)
(* Rate-limiting utilities of examples/python/rate_limiting_utilities.py:  *)
(* TokenBucket, SlidingWindow, PerMethodLimiter and AdaptiveRateLimiter,   *)
(* each one instance shared by several threads.                            *)
(*                                                                         *)
(* Time is counted in whole seconds (time.time() read as an integer); a    *)
(* rate is a rational <<num, den>> per second, so that the float           *)
(* arithmetic of the source (int(elapsed * rate), rate * 1.1) is exact     *)
(* integer arithmetic here.  A `with self.lock:` block is a lock step      *)
(* followed by the steps of its body; its last step releases the lock and  *)
(* returns.  The clock moves between any two steps.                        *)
(***************************************************************************)
EXTENDS Integers, Sequences, FiniteSets, TLC

\* ---------------------------------------------------------------- bounds
NumThreads == 2
MaxTime == 2
MaxCap == 2
MaxCalls == 3
MaxRequests == 2
MaxWindow == 2

Threads == 1..NumThreads
Times == 0..MaxTime
Capacities == 1..MaxCap
\* refill rates in tokens per second: 1/2 and 3/2
Rates == {<<1, 2>>, <<3, 2>>}
\* num_tokens arguments, one of them above every capacity
NumTokens == 1..(MaxCap + 1)
\* method names handed to PerMethodLimiter
Methods == {"eth_call", "eth_getBalance"}
\* AdaptiveRateLimiter(initial_rate, min_rate, max_rate), as in main(), with
\* bounds that a few updates reach, and with an initial rate below the
\* minimum (__init__ stores its arguments as they come)
RateConfigs == {<<<<50, 1>>, <<5, 1>>, <<100, 1>>>>,
                <<<<10, 1>>, <<6, 1>>, <<11, 1>>>>,
                <<<<1, 1>>, <<1, 2>>, <<3, 2>>>>,
                <<<<1, 1>>, <<5, 1>>, <<100, 1>>>>}
NoThread == 0

VARIABLES
  inst,            \* the class of the instance the threads share
  clock,           \* time.time()
  pc,              \* pc[t]: the line thread t stands at
  calls,           \* operations started so far
  num_tokens,      \* local of try_acquire: its argument (0: none)
  tokens_to_add,   \* local of try_acquire (0: none)
  now,             \* local of SlidingWindow's methods (0: none)
  method,          \* argument of PerMethodLimiter's methods ("": none)
  reg_args,        \* <<capacity, refill_rate>> handed to register_method
  rate,            \* local of the rate updates and of get_token_bucket
  capacity,        \* TokenBucket.capacity
  refill_rate,     \* TokenBucket.refill_rate
  tokens,          \* TokenBucket.tokens
  last_refill,     \* TokenBucket.last_refill
  tb_lock,         \* TokenBucket.lock: the thread holding it, or NoThread
  max_requests,    \* SlidingWindow.max_requests
  window_duration, \* SlidingWindow.window_duration
  requests,        \* SlidingWindow.requests, oldest first
  sw_lock,         \* SlidingWindow.lock
  limiters,        \* PerMethodLimiter.limiters: method -> TokenBucket
  pm_lock,         \* PerMethodLimiter.lock
  current_rate,    \* AdaptiveRateLimiter.current_rate
  min_rate,        \* AdaptiveRateLimiter.min_rate
  max_rate,        \* AdaptiveRateLimiter.max_rate
  ar_lock,         \* AdaptiveRateLimiter.lock
  initial_delay_ms, \* ExponentialBackoff.initial_delay_ms
  max_delay_ms,    \* ExponentialBackoff.max_delay_ms
  attempt,         \* ExponentialBackoff.attempt
  granted,         \* history: tokens handed out by calls that returned True
  added,           \* history: tokens credited by refills (after the clamp)
  admitted_at,     \* history: the timestamps SlidingWindow admitted, in order
  since_reset,     \* history: next_attempt() calls since __init__ or reset()
  prev,            \* history: the operation that returned last, and its value
  last_rate,       \* history: the rate get_current_rate returned last
  snapshot,        \* history: the bucket get_token_bucket returned last
  serial,          \* the shared fields as the calls leave them when run
                   \* one at a time, each at the step it reads the clock
                   \* (or, with no clock, the shared fields)
  lin              \* lin[t]: what t's call returns in that serial run

localVars == <<num_tokens, tokens_to_add, now, method, reg_args, rate>>
tbVars == <<capacity, refill_rate, tokens, last_refill, tb_lock>>
swVars == <<max_requests, window_duration, requests, sw_lock>>
pmVars == <<limiters, pm_lock>>
arVars == <<current_rate, min_rate, max_rate, ar_lock>>
ebVars == <<initial_delay_ms, max_delay_ms, attempt>>
histVars == <<granted, added, admitted_at, since_reset, prev, last_rate,
              snapshot>>
vars == <<inst, clock, pc, calls, localVars, tbVars, swVars, pmVars, arVars,
          ebVars, histVars, serial, lin>>

\* what a TokenBucket method leaves alone outside the bucket
tbFrame == <<inst, clock, calls, now, method, reg_args, rate, swVars, pmVars,
             arVars, ebVars, admitted_at, since_reset, last_rate, snapshot>>
\* what a SlidingWindow method leaves alone outside the window
swFrame == <<inst, clock, calls, num_tokens, tokens_to_add, method, reg_args,
             rate, tbVars, pmVars, arVars, ebVars, granted, added,
             since_reset, last_rate, snapshot>>

\* ------------------------------------------------------------ arithmetic
Min(a, b) == IF a <= b THEN a ELSE b
Max(a, b) == IF a >= b THEN a ELSE b

\* Python's int() of the rational n/d (d > 0): truncation toward zero
IntTrunc(n, d) == IF n >= 0 THEN n \div d ELSE -((-n) \div d)

\* what an operation returned: ok for a bool, val for a number
Returned(o, b, v) == [op |-> o, ok |-> b, val |-> v]
NoCall == Returned("none", FALSE, 0)

\* a TokenBucket object
Bucket(c, tok, r, last, l) ==
  [capacity |-> c, tokens |-> tok, refill_rate |-> r, last_refill |-> last,
   lock |-> l]
NoBucket == Bucket(0, 0, <<0, 1>>, 0, NoThread)
NoLimiters == [m \in {} |-> NoBucket]

\* ----------------------------------------------------------------- clock
\* time.time() moves forward by any amount
Advance ==
  /\ \E later \in Times : later > clock /\ clock' = later
  /\ UNCHANGED <<inst, pc, calls, localVars, tbVars, swVars, pmVars, arVars,
                 ebVars, histVars, serial, lin>>

\* time.time() is the wall clock: it may be set back
Regress ==
  /\ \E earlier \in Times : earlier < clock /\ clock' = earlier
  /\ UNCHANGED <<inst, pc, calls, localVars, tbVars, swVars, pmVars, arVars,
                 ebVars, histVars, serial, lin>>

\* ----------------------------------------------------------- TokenBucket
\* mutant: the bucket starts empty
TB_InitEmpty(c, r) ==
  /\ capacity = c
  /\ tokens = 0
  /\ refill_rate = r
  /\ last_refill = clock
  /\ tb_lock = NoThread

\* TokenBucket.__init__(capacity, refill_rate)
TB_Init(c, r) ==
  /\ capacity = c
  /\ tokens = c
  /\ refill_rate = r
  /\ last_refill = clock
  /\ tb_lock = NoThread

\* no TokenBucket was constructed
TB_None ==
  /\ capacity = 0
  /\ tokens = 0
  /\ refill_rate = <<0, 1>>
  /\ last_refill = 0
  /\ tb_lock = NoThread

\* mutant: the credit is rounded up instead of truncated
TokensToAddCeil(t_now, last, r) == -(((last - t_now) * r[1]) \div r[2])

\* tokens_to_add = int(elapsed * self.refill_rate)
TokensToAdd(t_now, last, r) == IntTrunc((t_now - last) * r[1], r[2])

\* mutant: the refill is not clamped to the capacity
RefilledNoClamp(tok, add, cap) == tok + add

\* min(self.tokens + tokens_to_add, self.capacity)
Refilled(tok, add, cap) == Min(tok + add, cap)

\* mutant: the comparison is strict
AdmitsStrict(tok, n) == tok > n

\* mutant: any token admits
AdmitsPartly(tok, n) == tok >= 1

\* if self.tokens >= num_tokens
Admits(tok, n) == tok >= n

\* int(time_to_next_token * 1000), time_to_next_token = 1.0 / refill_rate
TimeToNextMs(r) == IntTrunc(1000 * r[2], r[1])

\* try_acquire(n) run alone at time t_now on a bucket holding tok tokens
TryAcquireAlone(tok, last, cap, r, t_now, n) ==
  LET add == TokensToAdd(t_now, last, r)
      tok1 == IF add > 0 THEN Refilled(tok, add, cap) ELSE tok
      last1 == IF add > 0 THEN t_now ELSE last
  IN [ok |-> Admits(tok1, n),
      tokens |-> IF Admits(tok1, n) THEN tok1 - n ELSE tok1,
      last_refill |-> last1]

\* a thread calls try_acquire(num_tokens)
TA_Call(t) ==
  /\ pc[t] = "idle"
  /\ calls < MaxCalls
  /\ pc' = [pc EXCEPT ![t] = "ta_lock"]
  /\ calls' = calls + 1
  /\ UNCHANGED <<inst, clock, localVars, tbVars, swVars, pmVars, arVars,
                 ebVars, histVars, serial, lin>>

\* mutant: the lock excludes nobody
TA_LockWithNoExclusion(t, n) ==
  /\ pc[t] = "ta_lock"
  /\ tb_lock' = t
  /\ num_tokens' = [num_tokens EXCEPT ![t] = n]
  /\ pc' = [pc EXCEPT ![t] = "ta_refill"]
  /\ UNCHANGED <<tokens_to_add, capacity, refill_rate, tokens, last_refill,
                 granted, added, prev, serial, lin, tbFrame>>

\* with self.lock: in try_acquire(n).  The argument is not read before the
\* lock is held: it is drawn here, so that a waiting thread carries none.
TA_LockWith(t, n) ==
  /\ pc[t] = "ta_lock"
  /\ tb_lock = NoThread
  /\ tb_lock' = t
  /\ num_tokens' = [num_tokens EXCEPT ![t] = n]
  /\ pc' = [pc EXCEPT ![t] = "ta_refill"]
  /\ UNCHANGED <<tokens_to_add, capacity, refill_rate, tokens, last_refill,
                 granted, added, prev, serial, lin, tbFrame>>

\* try_acquire(num_tokens) with any num_tokens >= 1
TA_Lock(t) == \E n \in NumTokens : TA_LockWith(t, n)

\* try_acquire(), num_tokens defaulting to 1
TA_LockOne(t) == TA_LockWith(t, 1)

\* mutant: last_refill moves to now on every call
TA_RefillAlwaysAdvance(t) ==
  /\ pc[t] = "ta_refill"
  /\ LET t_now == clock
         add == TokensToAdd(t_now, last_refill, refill_rate)
     IN /\ tokens_to_add' = [tokens_to_add EXCEPT ![t] = add]
        /\ last_refill' = t_now
        /\ IF add > 0
           THEN /\ tokens' = Refilled(tokens, add, capacity)
                /\ added' = added + (tokens' - tokens)
           ELSE UNCHANGED <<tokens, added>>
  /\ LET alone == TryAcquireAlone(serial.tokens, serial.last_refill,
                                  capacity, refill_rate, clock, num_tokens[t])
     IN /\ serial' = [serial EXCEPT !.tokens = alone.tokens,
                                    !.last_refill = alone.last_refill]
        /\ lin' = [lin EXCEPT ![t] = Returned("ta", alone.ok, 0)]
  /\ pc' = [pc EXCEPT ![t] = "ta_check"]
  /\ UNCHANGED <<num_tokens, capacity, refill_rate, tb_lock, granted, prev,
                 tbFrame>>

\* mutant: the refill runs for any tokens_to_add but 0
TA_RefillAnySign(t) ==
  /\ pc[t] = "ta_refill"
  /\ LET t_now == clock
         add == TokensToAdd(t_now, last_refill, refill_rate)
     IN /\ tokens_to_add' = [tokens_to_add EXCEPT ![t] = add]
        /\ IF add # 0
           THEN /\ tokens' = Refilled(tokens, add, capacity)
                /\ last_refill' = t_now
                /\ added' = added + (tokens' - tokens)
           ELSE UNCHANGED <<tokens, last_refill, added>>
  /\ LET alone == TryAcquireAlone(serial.tokens, serial.last_refill,
                                  capacity, refill_rate, clock, num_tokens[t])
     IN /\ serial' = [serial EXCEPT !.tokens = alone.tokens,
                                    !.last_refill = alone.last_refill]
        /\ lin' = [lin EXCEPT ![t] = Returned("ta", alone.ok, 0)]
  /\ pc' = [pc EXCEPT ![t] = "ta_check"]
  /\ UNCHANGED <<num_tokens, capacity, refill_rate, tb_lock, granted, prev,
                 tbFrame>>

\* mutant: a refill leaves last_refill where it is
TA_RefillKeepsLastRefill(t) ==
  /\ pc[t] = "ta_refill"
  /\ LET t_now == clock
         add == TokensToAdd(t_now, last_refill, refill_rate)
     IN /\ tokens_to_add' = [tokens_to_add EXCEPT ![t] = add]
        /\ IF add > 0
           THEN /\ tokens' = Refilled(tokens, add, capacity)
                /\ added' = added + (tokens' - tokens)
           ELSE UNCHANGED <<tokens, added>>
  /\ LET alone == TryAcquireAlone(serial.tokens, serial.last_refill,
                                  capacity, refill_rate, clock, num_tokens[t])
     IN /\ serial' = [serial EXCEPT !.tokens = alone.tokens,
                                    !.last_refill = alone.last_refill]
        /\ lin' = [lin EXCEPT ![t] = Returned("ta", alone.ok, 0)]
  /\ pc' = [pc EXCEPT ![t] = "ta_check"]
  /\ UNCHANGED <<num_tokens, capacity, refill_rate, last_refill, tb_lock,
                 granted, prev, tbFrame>>

\* now = time.time(); elapsed = now - self.last_refill;
\* tokens_to_add = int(elapsed * self.refill_rate);
\* if tokens_to_add > 0: refill up to capacity and move last_refill to now
TA_Refill(t) ==
  /\ pc[t] = "ta_refill"
  /\ LET t_now == clock
         add == TokensToAdd(t_now, last_refill, refill_rate)
     IN /\ tokens_to_add' = [tokens_to_add EXCEPT ![t] = add]
        /\ IF add > 0
           THEN /\ tokens' = Refilled(tokens, add, capacity)
                /\ last_refill' = t_now
                /\ added' = added + (tokens' - tokens)
           ELSE UNCHANGED <<tokens, last_refill, added>>
  /\ LET alone == TryAcquireAlone(serial.tokens, serial.last_refill,
                                  capacity, refill_rate, clock, num_tokens[t])
     IN /\ serial' = [serial EXCEPT !.tokens = alone.tokens,
                                    !.last_refill = alone.last_refill]
        /\ lin' = [lin EXCEPT ![t] = Returned("ta", alone.ok, 0)]
  /\ pc' = [pc EXCEPT ![t] = "ta_check"]
  /\ UNCHANGED <<num_tokens, capacity, refill_rate, tb_lock, granted, prev,
                 tbFrame>>

\* if self.tokens >= num_tokens: ... else: return False
TA_Check(t) ==
  /\ pc[t] = "ta_check"
  /\ IF Admits(tokens, num_tokens[t])
     THEN /\ pc' = [pc EXCEPT ![t] = "ta_take"]
          /\ UNCHANGED <<num_tokens, tb_lock, prev, lin>>
     ELSE /\ prev' = Returned("ta", FALSE, 0)
          /\ tb_lock' = NoThread
          /\ pc' = [pc EXCEPT ![t] = "idle"]
          /\ num_tokens' = [num_tokens EXCEPT ![t] = 0]
          /\ lin' = [lin EXCEPT ![t] = NoCall]
  /\ tokens_to_add' = [tokens_to_add EXCEPT ![t] = 0]
  /\ UNCHANGED <<capacity, refill_rate, tokens, last_refill, granted, added,
                 serial, tbFrame>>

\* self.tokens -= num_tokens; return True
TA_Take(t) ==
  /\ pc[t] = "ta_take"
  /\ tokens' = tokens - num_tokens[t]
  /\ granted' = granted + num_tokens[t]
  /\ prev' = Returned("ta", TRUE, 0)
  /\ tb_lock' = NoThread
  /\ pc' = [pc EXCEPT ![t] = "idle"]
  /\ num_tokens' = [num_tokens EXCEPT ![t] = 0]
  /\ lin' = [lin EXCEPT ![t] = NoCall]
  /\ UNCHANGED <<tokens_to_add, capacity, refill_rate, last_refill, added,
                 serial, tbFrame>>

\* a thread calls time_until_available_ms()
TU_Call(t) ==
  /\ pc[t] = "idle"
  /\ calls < MaxCalls
  /\ pc' = [pc EXCEPT ![t] = "tu_lock"]
  /\ calls' = calls + 1
  /\ UNCHANGED <<inst, clock, localVars, tbVars, swVars, pmVars, arVars,
                 ebVars, histVars, serial, lin>>

\* with self.lock:
TU_Lock(t) ==
  /\ pc[t] = "tu_lock"
  /\ tb_lock = NoThread
  /\ tb_lock' = t
  /\ pc' = [pc EXCEPT ![t] = "tu_read"]
  /\ UNCHANGED <<num_tokens, tokens_to_add, capacity, refill_rate, tokens,
                 last_refill, granted, added, prev, serial, lin, tbFrame>>

\* if self.tokens > 0: return 0; else return int(1.0 / refill_rate * 1000);
\* the division raises for a refill rate of 0 and the with block lets go of
\* the lock
TU_Read(t) ==
  /\ pc[t] = "tu_read"
  /\ prev' = IF tokens > 0 THEN Returned("tu", FALSE, 0)
             ELSE IF refill_rate[1] = 0
                  THEN Returned("ZeroDivisionError", FALSE, 0)
                  ELSE Returned("tu", FALSE, TimeToNextMs(refill_rate))
  /\ tb_lock' = NoThread
  /\ pc' = [pc EXCEPT ![t] = "idle"]
  /\ UNCHANGED <<num_tokens, tokens_to_add, capacity, refill_rate, tokens,
                 last_refill, granted, added, serial, lin, tbFrame>>

\* --------------------------------------------------------- SlidingWindow
\* SlidingWindow.__init__(max_requests, window_duration)
SW_Init(m, w) ==
  /\ max_requests = m
  /\ window_duration = w
  /\ requests = <<>>
  /\ sw_lock = NoThread

\* no SlidingWindow was constructed
SW_None ==
  /\ max_requests = 0
  /\ window_duration = 0
  /\ requests = <<>>
  /\ sw_lock = NoThread

\* mutant: an `if` in place of the `while`: one entry is removed at most
PruneLeftOnce(reqs, t_now, w) ==
  IF reqs # <<>> /\ t_now - Head(reqs) > w THEN Tail(reqs) ELSE reqs

\* mutant: the loop tests the newest entry, self.requests[-1]
PruneLeftByNewest(reqs, t_now, w) ==
  IF reqs # <<>> /\ t_now - reqs[Len(reqs)] > w THEN <<>> ELSE reqs

\* mutant: >= in place of >, an entry as old as the window is removed
RECURSIVE PruneLeftInclusive(_, _, _)
PruneLeftInclusive(reqs, t_now, w) ==
  IF reqs # <<>> /\ t_now - Head(reqs) >= w
  THEN PruneLeftInclusive(Tail(reqs), t_now, w)
  ELSE reqs

\* while self.requests and now - self.requests[0] > self.window_duration:
\*     self.requests.popleft()
RECURSIVE PruneLeft(_, _, _)
PruneLeft(reqs, t_now, w) ==
  IF reqs # <<>> /\ t_now - Head(reqs) > w
  THEN PruneLeft(Tail(reqs), t_now, w)
  ELSE reqs

\* mutant: <= in place of <
HasRoomInclusive(reqs, m) == Len(reqs) <= m

\* if len(self.requests) < self.max_requests
HasRoom(reqs, m) == Len(reqs) < m

\* SlidingWindow.try_acquire() run alone at time t_now
WindowAcquireAlone(reqs, m, w, t_now) ==
  LET kept == PruneLeft(reqs, t_now, w)
  IN [ok |-> HasRoom(kept, m),
      requests |-> IF HasRoom(kept, m) THEN Append(kept, t_now) ELSE kept]

\* a thread calls SlidingWindow.try_acquire()
SA_Call(t) ==
  /\ pc[t] = "idle"
  /\ calls < MaxCalls
  /\ pc' = [pc EXCEPT ![t] = "sa_lock"]
  /\ calls' = calls + 1
  /\ UNCHANGED <<inst, clock, localVars, tbVars, swVars, pmVars, arVars,
                 ebVars, histVars, serial, lin>>

\* mutant: the lock excludes nobody
SA_LockNoExclusion(t) ==
  /\ pc[t] = "sa_lock"
  /\ sw_lock' = t
  /\ pc' = [pc EXCEPT ![t] = "sa_prune"]
  /\ UNCHANGED <<now, max_requests, window_duration, requests, admitted_at,
                 prev, serial, lin, swFrame>>

\* with self.lock:
SA_Lock(t) ==
  /\ pc[t] = "sa_lock"
  /\ sw_lock = NoThread
  /\ sw_lock' = t
  /\ pc' = [pc EXCEPT ![t] = "sa_prune"]
  /\ UNCHANGED <<now, max_requests, window_duration, requests, admitted_at,
                 prev, serial, lin, swFrame>>

\* mutant: try_acquire never removes the old requests
SA_PruneNever(t) ==
  /\ pc[t] = "sa_prune"
  /\ now' = [now EXCEPT ![t] = clock]
  /\ requests' = requests
  /\ LET alone == WindowAcquireAlone(serial.requests, max_requests,
                                     window_duration, clock)
     IN /\ serial' = [serial EXCEPT !.requests = alone.requests]
        /\ lin' = [lin EXCEPT ![t] = Returned("sa", alone.ok, 0)]
  /\ pc' = [pc EXCEPT ![t] = "sa_check"]
  /\ UNCHANGED <<max_requests, window_duration, sw_lock, admitted_at, prev,
                 swFrame>>

\* mutant: now = time.time() was read before the lock was taken, at any
\* earlier time
SA_PruneStaleClock(t) ==
  /\ pc[t] = "sa_prune"
  /\ \E early \in Times :
       /\ early <= clock
       /\ now' = [now EXCEPT ![t] = early]
       /\ requests' = PruneLeft(requests, early, window_duration)
       /\ LET alone == WindowAcquireAlone(serial.requests, max_requests,
                                          window_duration, early)
          IN /\ serial' = [serial EXCEPT !.requests = alone.requests]
             /\ lin' = [lin EXCEPT ![t] = Returned("sa", alone.ok, 0)]
  /\ pc' = [pc EXCEPT ![t] = "sa_check"]
  /\ UNCHANGED <<max_requests, window_duration, sw_lock, admitted_at, prev,
                 swFrame>>

\* now = time.time(); then the while loop that removes the old requests
SA_Prune(t) ==
  /\ pc[t] = "sa_prune"
  /\ now' = [now EXCEPT ![t] = clock]
  /\ requests' = PruneLeft(requests, clock, window_duration)
  /\ LET alone == WindowAcquireAlone(serial.requests, max_requests,
                                     window_duration, clock)
     IN /\ serial' = [serial EXCEPT !.requests = alone.requests]
        /\ lin' = [lin EXCEPT ![t] = Returned("sa", alone.ok, 0)]
  /\ pc' = [pc EXCEPT ![t] = "sa_check"]
  /\ UNCHANGED <<max_requests, window_duration, sw_lock, admitted_at, prev,
                 swFrame>>

\* if len(self.requests) < self.max_requests: append(now), return True;
\* else: return False
SA_Check(t) ==
  /\ pc[t] = "sa_check"
  /\ IF HasRoom(requests, max_requests)
     THEN /\ requests' = Append(requests, now[t])
          /\ admitted_at' = Append(admitted_at, now[t])
          /\ prev' = Returned("sa", TRUE, 0)
     ELSE /\ requests' = requests
          /\ admitted_at' = admitted_at
          /\ prev' = Returned("sa", FALSE, 0)
  /\ sw_lock' = NoThread
  /\ pc' = [pc EXCEPT ![t] = "idle"]
  /\ now' = [now EXCEPT ![t] = 0]
  /\ lin' = [lin EXCEPT ![t] = NoCall]
  /\ UNCHANGED <<max_requests, window_duration, serial, swFrame>>

\* a thread calls current_requests()
CR_Call(t) ==
  /\ pc[t] = "idle"
  /\ calls < MaxCalls
  /\ pc' = [pc EXCEPT ![t] = "cr_lock"]
  /\ calls' = calls + 1
  /\ UNCHANGED <<inst, clock, localVars, tbVars, swVars, pmVars, arVars,
                 ebVars, histVars, serial, lin>>

\* with self.lock:
CR_Lock(t) ==
  /\ pc[t] = "cr_lock"
  /\ sw_lock = NoThread
  /\ sw_lock' = t
  /\ pc' = [pc EXCEPT ![t] = "cr_count"]
  /\ UNCHANGED <<now, max_requests, window_duration, requests, admitted_at,
                 prev, serial, lin, swFrame>>

\* mutant: a pure read, return len(self.requests) with nothing removed
CR_CountNoPrune(t) ==
  /\ pc[t] = "cr_count"
  /\ requests' = requests
  /\ prev' = Returned("cr", FALSE, Len(requests))
  /\ serial' = serial
  /\ sw_lock' = NoThread
  /\ pc' = [pc EXCEPT ![t] = "idle"]
  /\ UNCHANGED <<now, max_requests, window_duration, admitted_at, lin,
                 swFrame>>

\* now = time.time(); the same while loop; return len(self.requests)
CR_Count(t) ==
  /\ pc[t] = "cr_count"
  /\ requests' = PruneLeft(requests, clock, window_duration)
  /\ prev' = Returned("cr", FALSE, Len(requests'))
  /\ serial' = [serial EXCEPT
                  !.requests = PruneLeft(serial.requests, clock,
                                         window_duration)]
  /\ sw_lock' = NoThread
  /\ pc' = [pc EXCEPT ![t] = "idle"]
  /\ UNCHANGED <<now, max_requests, window_duration, admitted_at, lin,
                 swFrame>>

\* ------------------------------------------------------ PerMethodLimiter
\* a bucket with its lock free
Unlocked(b) == [b EXCEPT !.lock = NoThread]

\* what a PerMethodLimiter method leaves alone outside the registry
pmFrame == <<inst, clock, calls, now, rate, tbVars, swVars, arVars, ebVars,
             granted, added, admitted_at, since_reset, last_rate, snapshot>>

\* PerMethodLimiter.__init__()
PM_Init ==
  /\ limiters = NoLimiters
  /\ pm_lock = NoThread

\* no PerMethodLimiter was constructed
PM_None ==
  /\ limiters = NoLimiters
  /\ pm_lock = NoThread

\* self.limiters[method] = bucket
Stored(lims, m, b) ==
  [x \in DOMAIN lims \cup {m} |-> IF x = m THEN b ELSE lims[x]]

\* register_method(m, c, r) run alone at time t_now
RegisterAlone(lims, m, c, r, t_now) ==
  Stored(lims, m, Bucket(c, c, r, t_now, NoThread))

\* PerMethodLimiter.try_acquire(m) run alone at time t_now
MethodAcquireAlone(lims, m, t_now) ==
  IF m \in DOMAIN lims
  THEN LET b == lims[m]
           alone == TryAcquireAlone(b.tokens, b.last_refill, b.capacity,
                                    b.refill_rate, t_now, 1)
       IN [ok |-> alone.ok,
           limiters |-> Stored(lims, m,
                               [b EXCEPT !.tokens = alone.tokens,
                                         !.last_refill = alone.last_refill])]
  ELSE [ok |-> TRUE, limiters |-> lims]

\* a thread calls register_method(method, capacity, refill_rate)
PR_Call(t) ==
  /\ pc[t] = "idle"
  /\ calls < MaxCalls
  /\ pc' = [pc EXCEPT ![t] = "pr_lock"]
  /\ calls' = calls + 1
  /\ UNCHANGED <<inst, clock, localVars, tbVars, swVars, pmVars, arVars,
                 ebVars, histVars, serial, lin>>

\* mutant: the registry lock excludes nobody
PR_LockNoExclusion(t) ==
  /\ pc[t] = "pr_lock"
  /\ pm_lock' = t
  /\ \E m \in Methods, c \in Capacities, r \in Rates :
       /\ method' = [method EXCEPT ![t] = m]
       /\ reg_args' = [reg_args EXCEPT ![t] = <<c, r>>]
  /\ pc' = [pc EXCEPT ![t] = "pr_store"]
  /\ UNCHANGED <<num_tokens, tokens_to_add, limiters, prev, serial, lin,
                 pmFrame>>

\* with self.lock: in register_method(m, c, r).  The arguments are not read
\* before the lock is held: they are drawn here.
PR_Lock(t) ==
  /\ pc[t] = "pr_lock"
  /\ pm_lock = NoThread
  /\ pm_lock' = t
  /\ \E m \in Methods, c \in Capacities, r \in Rates :
       /\ method' = [method EXCEPT ![t] = m]
       /\ reg_args' = [reg_args EXCEPT ![t] = <<c, r>>]
  /\ pc' = [pc EXCEPT ![t] = "pr_store"]
  /\ UNCHANGED <<num_tokens, tokens_to_add, limiters, prev, serial, lin,
                 pmFrame>>

\* mutant: an entry that exists is kept, as with dict.setdefault
PR_StoreKeepExisting(t) ==
  /\ pc[t] = "pr_store"
  /\ limiters' = IF method[t] \in DOMAIN limiters
                 THEN limiters
                 ELSE Stored(limiters, method[t],
                             Bucket(reg_args[t][1], reg_args[t][1],
                                    reg_args[t][2], clock, NoThread))
  /\ serial' = [serial EXCEPT
                  !.limiters = RegisterAlone(serial.limiters, method[t],
                                             reg_args[t][1], reg_args[t][2],
                                             clock)]
  /\ prev' = Returned("pr", FALSE, 0)
  /\ pm_lock' = NoThread
  /\ pc' = [pc EXCEPT ![t] = "idle"]
  /\ method' = [method EXCEPT ![t] = ""]
  /\ reg_args' = [reg_args EXCEPT ![t] = <<0, <<0, 1>>>>]
  /\ UNCHANGED <<num_tokens, tokens_to_add, lin, pmFrame>>

\* self.limiters[method] = TokenBucket(capacity, refill_rate)
PR_Store(t) ==
  /\ pc[t] = "pr_store"
  /\ limiters' = Stored(limiters, method[t],
                        Bucket(reg_args[t][1], reg_args[t][1], reg_args[t][2],
                               clock, NoThread))
  /\ serial' = [serial EXCEPT
                  !.limiters = RegisterAlone(serial.limiters, method[t],
                                             reg_args[t][1], reg_args[t][2],
                                             clock)]
  /\ prev' = Returned("pr", FALSE, 0)
  /\ pm_lock' = NoThread
  /\ pc' = [pc EXCEPT ![t] = "idle"]
  /\ method' = [method EXCEPT ![t] = ""]
  /\ reg_args' = [reg_args EXCEPT ![t] = <<0, <<0, 1>>>>]
  /\ UNCHANGED <<num_tokens, tokens_to_add, lin, pmFrame>>

\* a thread calls PerMethodLimiter.try_acquire(method)
PA_Call(t) ==
  /\ pc[t] = "idle"
  /\ calls < MaxCalls
  /\ pc' = [pc EXCEPT ![t] = "pa_lock"]
  /\ calls' = calls + 1
  /\ UNCHANGED <<inst, clock, localVars, tbVars, swVars, pmVars, arVars,
                 ebVars, histVars, serial, lin>>

\* with self.lock: in try_acquire(m), m drawn here
PA_Lock(t) ==
  /\ pc[t] = "pa_lock"
  /\ pm_lock = NoThread
  /\ pm_lock' = t
  /\ \E m \in Methods : method' = [method EXCEPT ![t] = m]
  /\ pc' = [pc EXCEPT ![t] = "pa_lookup"]
  /\ UNCHANGED <<num_tokens, tokens_to_add, reg_args, limiters, prev, serial,
                 lin, pmFrame>>

\* mutant: a method that is not registered is denied
PA_LookupFailClosed(t) ==
  /\ pc[t] = "pa_lookup"
  /\ IF method[t] \in DOMAIN limiters
     THEN /\ num_tokens' = [num_tokens EXCEPT ![t] = 1]
          /\ pc' = [pc EXCEPT ![t] = "pb_lock"]
          /\ UNCHANGED <<method, pm_lock, prev, serial>>
     ELSE /\ prev' = Returned("pa", FALSE, 0)
          /\ serial' = serial
          /\ pm_lock' = NoThread
          /\ pc' = [pc EXCEPT ![t] = "idle"]
          /\ method' = [method EXCEPT ![t] = ""]
          /\ UNCHANGED num_tokens
  /\ UNCHANGED <<tokens_to_add, reg_args, limiters, lin, pmFrame>>

\* if method in self.limiters: enter its try_acquire(); else: return True
PA_Lookup(t) ==
  /\ pc[t] = "pa_lookup"
  /\ IF method[t] \in DOMAIN limiters
     THEN /\ num_tokens' = [num_tokens EXCEPT ![t] = 1]
          /\ pc' = [pc EXCEPT ![t] = "pb_lock"]
          /\ UNCHANGED <<method, pm_lock, prev, serial>>
     ELSE /\ prev' = Returned("pa", TRUE, 0)
          /\ serial' = [serial EXCEPT
                          !.limiters = MethodAcquireAlone(serial.limiters,
                                                          method[t],
                                                          clock).limiters]
          /\ pm_lock' = NoThread
          /\ pc' = [pc EXCEPT ![t] = "idle"]
          /\ method' = [method EXCEPT ![t] = ""]
          /\ UNCHANGED num_tokens
  /\ UNCHANGED <<tokens_to_add, reg_args, limiters, lin, pmFrame>>

\* the stored bucket's try_acquire: with self.lock:
PB_Lock(t) ==
  /\ pc[t] = "pb_lock"
  /\ limiters[method[t]].lock = NoThread
  /\ limiters' = [limiters EXCEPT ![method[t]].lock = t]
  /\ pc' = [pc EXCEPT ![t] = "pb_refill"]
  /\ UNCHANGED <<num_tokens, tokens_to_add, method, reg_args, pm_lock, prev,
                 serial, lin, pmFrame>>

\* the stored bucket's try_acquire: the refill, as in TA_Refill
PB_Refill(t) ==
  /\ pc[t] = "pb_refill"
  /\ LET b == limiters[method[t]]
         t_now == clock
         add == TokensToAdd(t_now, b.last_refill, b.refill_rate)
     IN /\ tokens_to_add' = [tokens_to_add EXCEPT ![t] = add]
        /\ limiters' =
             IF add > 0
             THEN [limiters EXCEPT
                     ![method[t]].tokens = Refilled(b.tokens, add, b.capacity),
                     ![method[t]].last_refill = t_now]
             ELSE limiters
  /\ LET alone == MethodAcquireAlone(serial.limiters, method[t], clock)
     IN /\ serial' = [serial EXCEPT !.limiters = alone.limiters]
        /\ lin' = [lin EXCEPT ![t] = Returned("pa", alone.ok, 0)]
  /\ pc' = [pc EXCEPT ![t] = "pb_check"]
  /\ UNCHANGED <<num_tokens, method, reg_args, pm_lock, prev, pmFrame>>

\* mutant: the bucket's answer is dropped, a denial returns True
PB_CheckIgnoresDenial(t) ==
  /\ pc[t] = "pb_check"
  /\ IF Admits(limiters[method[t]].tokens, num_tokens[t])
     THEN /\ pc' = [pc EXCEPT ![t] = "pb_take"]
          /\ UNCHANGED <<num_tokens, method, limiters, pm_lock, prev, lin>>
     ELSE /\ prev' = Returned("pa", TRUE, 0)
          /\ limiters' = [limiters EXCEPT ![method[t]].lock = NoThread]
          /\ pm_lock' = NoThread
          /\ pc' = [pc EXCEPT ![t] = "idle"]
          /\ num_tokens' = [num_tokens EXCEPT ![t] = 0]
          /\ method' = [method EXCEPT ![t] = ""]
          /\ lin' = [lin EXCEPT ![t] = NoCall]
  /\ tokens_to_add' = [tokens_to_add EXCEPT ![t] = 0]
  /\ UNCHANGED <<reg_args, serial, pmFrame>>

\* the stored bucket's try_acquire: the check; a denial returns False
\* through PerMethodLimiter.try_acquire, which releases the registry lock
PB_Check(t) ==
  /\ pc[t] = "pb_check"
  /\ IF Admits(limiters[method[t]].tokens, num_tokens[t])
     THEN /\ pc' = [pc EXCEPT ![t] = "pb_take"]
          /\ UNCHANGED <<num_tokens, method, limiters, pm_lock, prev, lin>>
     ELSE /\ prev' = Returned("pa", FALSE, 0)
          /\ limiters' = [limiters EXCEPT ![method[t]].lock = NoThread]
          /\ pm_lock' = NoThread
          /\ pc' = [pc EXCEPT ![t] = "idle"]
          /\ num_tokens' = [num_tokens EXCEPT ![t] = 0]
          /\ method' = [method EXCEPT ![t] = ""]
          /\ lin' = [lin EXCEPT ![t] = NoCall]
  /\ tokens_to_add' = [tokens_to_add EXCEPT ![t] = 0]
  /\ UNCHANGED <<reg_args, serial, pmFrame>>

\* mutant: the token is taken from every bucket that has one
PB_TakeFromAll(t) ==
  /\ pc[t] = "pb_take"
  /\ limiters' =
       [x \in DOMAIN limiters |->
          IF x = method[t]
          THEN [limiters[x] EXCEPT !.tokens = @ - num_tokens[t],
                                   !.lock = NoThread]
          ELSE [limiters[x] EXCEPT !.tokens = Max(@ - 1, 0)]]
  /\ prev' = Returned("pa", TRUE, 0)
  /\ pm_lock' = NoThread
  /\ pc' = [pc EXCEPT ![t] = "idle"]
  /\ num_tokens' = [num_tokens EXCEPT ![t] = 0]
  /\ method' = [method EXCEPT ![t] = ""]
  /\ lin' = [lin EXCEPT ![t] = NoCall]
  /\ UNCHANGED <<tokens_to_add, reg_args, serial, pmFrame>>

\* the stored bucket's try_acquire: self.tokens -= 1; return True, which
\* PerMethodLimiter.try_acquire returns, releasing the registry lock
PB_Take(t) ==
  /\ pc[t] = "pb_take"
  /\ limiters' = [limiters EXCEPT
                    ![method[t]].tokens = @ - num_tokens[t],
                    ![method[t]].lock = NoThread]
  /\ prev' = Returned("pa", TRUE, 0)
  /\ pm_lock' = NoThread
  /\ pc' = [pc EXCEPT ![t] = "idle"]
  /\ num_tokens' = [num_tokens EXCEPT ![t] = 0]
  /\ method' = [method EXCEPT ![t] = ""]
  /\ lin' = [lin EXCEPT ![t] = NoCall]
  /\ UNCHANGED <<tokens_to_add, reg_args, serial, pmFrame>>

\* --------------------------------------------------- AdaptiveRateLimiter
\* rationals <<num, den>>, den > 0, in lowest terms
RECURSIVE GCD(_, _)
GCD(a, b) == IF b = 0 THEN a ELSE GCD(b, a % b)
Norm(q) == LET g == GCD(q[1], q[2]) IN <<q[1] \div g, q[2] \div g>>
RTimes(p, q) == Norm(<<p[1] * q[1], p[2] * q[2]>>)
RLeq(p, q) == p[1] * q[2] <= q[1] * p[2]
RMin(p, q) == IF RLeq(p, q) THEN p ELSE q
RMax(p, q) == IF RLeq(q, p) THEN p ELSE q

\* self.decrease_factor = 0.5
DecreaseFactor == <<1, 2>>
\* self.increase_factor = 1.1
IncreaseFactor == <<11, 10>>

\* what an AdaptiveRateLimiter method leaves alone outside the limiter
arFrame == <<inst, clock, calls, num_tokens, tokens_to_add, now, method,
             reg_args, tbVars, swVars, pmVars, ebVars, granted, added,
             admitted_at, since_reset>>

\* AdaptiveRateLimiter.__init__(initial_rate, min_rate, max_rate)
AR_Init(initial, lo, hi) ==
  /\ current_rate = initial
  /\ min_rate = lo
  /\ max_rate = hi
  /\ ar_lock = NoThread

\* no AdaptiveRateLimiter was constructed
AR_None ==
  /\ current_rate = <<0, 1>>
  /\ min_rate = <<0, 1>>
  /\ max_rate = <<0, 1>>
  /\ ar_lock = NoThread

\* mutant: no clamp to max_rate
IncreasedUnclamped(r, hi) == RTimes(r, IncreaseFactor)

\* min(self.current_rate * self.increase_factor, self.max_rate)
Increased(r, hi) == RMin(RTimes(r, IncreaseFactor), hi)

\* mutant: a rate that halving would take below min_rate is kept
DecreasedAboveFloor(r, lo) ==
  IF RLeq(lo, RTimes(r, DecreaseFactor)) THEN RTimes(r, DecreaseFactor) ELSE r

\* max(self.current_rate * self.decrease_factor, self.min_rate)
Decreased(r, lo) == RMax(RTimes(r, DecreaseFactor), lo)

\* capacity = max(int(rate), 1); TokenBucket(capacity, rate)
BucketFor(r, t_now) ==
  LET c == Max(IntTrunc(r[1], r[2]), 1)
  IN Bucket(c, c, r, t_now, NoThread)

\* a thread enters the method whose first line is `first`
AR_Enter(t, first) ==
  /\ pc[t] = "idle"
  /\ calls < MaxCalls
  /\ pc' = [pc EXCEPT ![t] = first]
  /\ calls' = calls + 1
  /\ UNCHANGED <<inst, clock, localVars, tbVars, swVars, pmVars, arVars,
                 ebVars, histVars, serial, lin>>

\* mutant: the lock excludes nobody
AR_LockNoExclusion(t, at, next) ==
  /\ pc[t] = at
  /\ ar_lock' = t
  /\ pc' = [pc EXCEPT ![t] = next]
  /\ UNCHANGED <<rate, current_rate, min_rate, max_rate, prev, last_rate,
                 snapshot, serial, lin, arFrame>>

\* with self.lock: at line `at`, going on to `next`
AR_Lock(t, at, next) ==
  /\ pc[t] = at
  /\ ar_lock = NoThread
  /\ ar_lock' = t
  /\ pc' = [pc EXCEPT ![t] = next]
  /\ UNCHANGED <<rate, current_rate, min_rate, max_rate, prev, last_rate,
                 snapshot, serial, lin, arFrame>>

\* mutant: the returned bucket follows the limiter's rate
AR_StoreLiveView(t, at, op) ==
  /\ pc[t] = at
  /\ current_rate' = rate[t]
  /\ snapshot' = IF snapshot = NoBucket
                 THEN snapshot
                 ELSE [snapshot EXCEPT !.refill_rate = rate[t]]
  /\ prev' = Returned(op, FALSE, 0)
  /\ ar_lock' = NoThread
  /\ pc' = [pc EXCEPT ![t] = "idle"]
  /\ rate' = [rate EXCEPT ![t] = <<0, 1>>]
  /\ lin' = [lin EXCEPT ![t] = NoCall]
  /\ UNCHANGED <<min_rate, max_rate, last_rate, serial, arFrame>>

\* self.current_rate = <the new rate>; return
AR_Store(t, at, op) ==
  /\ pc[t] = at
  /\ current_rate' = rate[t]
  /\ prev' = Returned(op, FALSE, 0)
  /\ ar_lock' = NoThread
  /\ pc' = [pc EXCEPT ![t] = "idle"]
  /\ rate' = [rate EXCEPT ![t] = <<0, 1>>]
  /\ lin' = [lin EXCEPT ![t] = NoCall]
  /\ UNCHANGED <<min_rate, max_rate, last_rate, snapshot, serial, arFrame>>

\* a thread calls record_success()
RS_Call(t) == AR_Enter(t, "rs_lock")

RS_Lock(t) == AR_Lock(t, "rs_lock", "rs_compute")

\* the right-hand side: min(self.current_rate * self.increase_factor, max)
RS_Compute(t) ==
  /\ pc[t] = "rs_compute"
  /\ rate' = [rate EXCEPT ![t] = Increased(current_rate, max_rate)]
  /\ serial' = [serial EXCEPT
                  !.current_rate = Increased(serial.current_rate, max_rate)]
  /\ lin' = [lin EXCEPT ![t] = Returned("rs", FALSE, 0)]
  /\ pc' = [pc EXCEPT ![t] = "rs_store"]
  /\ UNCHANGED <<arVars, prev, last_rate, snapshot, arFrame>>

RS_Store(t) == AR_Store(t, "rs_store", "rs")

\* a thread calls record_rate_limit_error()
RE_Call(t) == AR_Enter(t, "re_lock")

RE_Lock(t) == AR_Lock(t, "re_lock", "re_compute")

\* the right-hand side: max(self.current_rate * self.decrease_factor, min)
RE_Compute(t) ==
  /\ pc[t] = "re_compute"
  /\ rate' = [rate EXCEPT ![t] = Decreased(current_rate, min_rate)]
  /\ serial' = [serial EXCEPT
                  !.current_rate = Decreased(serial.current_rate, min_rate)]
  /\ lin' = [lin EXCEPT ![t] = Returned("re", FALSE, 0)]
  /\ pc' = [pc EXCEPT ![t] = "re_store"]
  /\ UNCHANGED <<arVars, prev, last_rate, snapshot, arFrame>>

RE_Store(t) == AR_Store(t, "re_store", "re")

\* a thread calls get_current_rate()
GR_Call(t) == AR_Enter(t, "gr_lock")

GR_Lock(t) == AR_Lock(t, "gr_lock", "gr_read")

\* return self.current_rate
GR_Read(t) ==
  /\ pc[t] = "gr_read"
  /\ last_rate' = current_rate
  /\ prev' = Returned("gr", FALSE, 0)
  /\ ar_lock' = NoThread
  /\ pc' = [pc EXCEPT ![t] = "idle"]
  /\ UNCHANGED <<rate, current_rate, min_rate, max_rate, snapshot, serial,
                 lin, arFrame>>

\* a thread calls get_token_bucket()
GB_Call(t) == AR_Enter(t, "gb_lock")

\* mutant: get_token_bucket() holds the lock when get_current_rate() asks
\* for it
GB_LockTwice(t) ==
  /\ pc[t] = "gb_lock"
  /\ ar_lock = NoThread
  /\ ar_lock' = t
  /\ UNCHANGED <<pc, rate, current_rate, min_rate, max_rate, prev, last_rate,
                 snapshot, serial, lin, arFrame>>

\* rate = self.get_current_rate(): with self.lock:
GB_Lock(t) == AR_Lock(t, "gb_lock", "gb_read")

\* rate = self.get_current_rate(): return self.current_rate
GB_Read(t) ==
  /\ pc[t] = "gb_read"
  /\ rate' = [rate EXCEPT ![t] = current_rate]
  /\ lin' = [lin EXCEPT ![t] = Returned("gb", FALSE, serial.current_rate)]
  /\ ar_lock' = NoThread
  /\ pc' = [pc EXCEPT ![t] = "gb_build"]
  /\ UNCHANGED <<current_rate, min_rate, max_rate, prev, last_rate, snapshot,
                 serial, arFrame>>

\* mutant: the refill rate is read again when the bucket is built
GB_BuildRereads(t) ==
  /\ pc[t] = "gb_build"
  /\ snapshot' = [BucketFor(rate[t], clock) EXCEPT
                    !.refill_rate = current_rate]
  /\ prev' = Returned("gb", FALSE, 0)
  /\ pc' = [pc EXCEPT ![t] = "idle"]
  /\ rate' = [rate EXCEPT ![t] = <<0, 1>>]
  /\ lin' = [lin EXCEPT ![t] = NoCall]
  /\ UNCHANGED <<arVars, last_rate, serial, arFrame>>

\* capacity = max(int(rate), 1); return TokenBucket(capacity, rate)
GB_Build(t) ==
  /\ pc[t] = "gb_build"
  /\ snapshot' = BucketFor(rate[t], clock)
  /\ prev' = Returned("gb", FALSE, 0)
  /\ pc' = [pc EXCEPT ![t] = "idle"]
  /\ rate' = [rate EXCEPT ![t] = <<0, 1>>]
  /\ lin' = [lin EXCEPT ![t] = NoCall]
  /\ UNCHANGED <<arVars, last_rate, serial, arFrame>>

\* bucket = adaptive.get_token_bucket(); bucket.try_acquire(): the caller
\* draws one token from the bucket it was handed
SnapshotTryAcquire ==
  /\ snapshot # NoBucket
  /\ calls < MaxCalls
  /\ calls' = calls + 1
  /\ LET res == TryAcquireAlone(snapshot.tokens, snapshot.last_refill,
                                snapshot.capacity, snapshot.refill_rate,
                                clock, 1)
     IN /\ snapshot' = [snapshot EXCEPT !.tokens = res.tokens,
                                        !.last_refill = res.last_refill]
        /\ prev' = Returned("bucket.try_acquire", res.ok, 0)
  /\ UNCHANGED <<inst, clock, pc, localVars, tbVars, swVars, pmVars, arVars,
                 ebVars, granted, added, admitted_at, since_reset, last_rate,
                 serial, lin>>

\* the threads inside record_success(), inside record_rate_limit_error()
InSuccess == {t \in Threads : pc[t] \in {"rs_lock", "rs_compute", "rs_store"}}
InError == {t \in Threads : pc[t] \in {"re_lock", "re_compute", "re_store"}}

\* a thread enters the method whose first line is `first`, one call more in
\* a run of calls that does not end (calls counts up to MaxCalls and stays
\* there)
AR_Again(t, first) ==
  /\ pc[t] = "idle"
  /\ pc' = [pc EXCEPT ![t] = first]
  /\ calls' = Min(calls + 1, MaxCalls)
  /\ UNCHANGED <<inst, clock, localVars, tbVars, swVars, pmVars, arVars,
                 ebVars, histVars, serial, lin>>

\* record_success() once more, in a run of successes
RS_Again(t) ==
  /\ prev.op # "re"
  /\ InError = {}
  /\ AR_Again(t, "rs_lock")

\* record_rate_limit_error() once more, in a run of errors
RE_Again(t) ==
  /\ prev.op # "rs"
  /\ InSuccess = {}
  /\ AR_Again(t, "re_lock")
\* ---------------------------------------------------- ExponentialBackoff
\* next_attempt() calls the model follows; get_delay_ms stops answering
\* before this many
MaxAttempt == 1030

\* <<initial_delay_ms, max_delay_ms>>: main()'s, a small pair, and a pair
\* with the initial delay above the maximum (the constructor checks nothing)
BackoffConfigs == {<<100, 30000>>, <<1, 5>>, <<7, 3>>}

\* self.multiplier = 2.0
Multiplier == 2
\* a float is below 2.0 ** 1024: at and past it `**` raises OverflowError,
\* a product is inf and int(inf) raises OverflowError
FloatMaxExp == 1024
\* what an ExponentialBackoff method leaves alone outside the object
ebFrame == <<inst, clock, pc, calls, localVars, tbVars, swVars, pmVars,
             arVars, granted, added, admitted_at, last_rate, snapshot,
             serial, lin>>

\* ExponentialBackoff.__init__(initial_delay_ms, max_delay_ms)
EB_Init(initial, max) ==
  /\ initial_delay_ms = initial
  /\ max_delay_ms = max
  /\ attempt = 0

\* no ExponentialBackoff was constructed
EB_None ==
  /\ initial_delay_ms = 0
  /\ max_delay_ms = 0
  /\ attempt = 0

\* self.multiplier ** k, for 0 <= k <= 30
RECURSIVE Power(_)
Power(k) == IF k = 0 THEN 1 ELSE Multiplier * Power(k - 1)

\* self.initial_delay_ms * (self.multiplier ** self.attempt) has no finite
\* float value: initial * 2 ** n >= 2 ** FloatMaxExp.  (An initial delay
\* here is below 2 ** 30.)
Overflows(initial, n) ==
  \/ n >= FloatMaxExp
  \/ /\ n >= FloatMaxExp - 30
     /\ initial >= Power(FloatMaxExp - n)

\* min(int(initial * 2.0 ** n), cap) for initial >= 0, the doubling stopped
\* once it has passed cap
RECURSIVE DelayMs(_, _, _)
DelayMs(x, n, cap) ==
  IF n = 0 \/ x = 0 \/ x >= cap
  THEN Min(x, cap)
  ELSE DelayMs(Multiplier * x, n - 1, cap)

\* get_delay_ms()
GetDelayMs ==
  /\ prev' = IF Overflows(initial_delay_ms, attempt)
             THEN Returned("OverflowError", FALSE, 0)
             ELSE Returned("get_delay_ms", FALSE,
                           DelayMs(initial_delay_ms, attempt, max_delay_ms))
  /\ UNCHANGED <<ebVars, since_reset, ebFrame>>

\* mutant: the counter stops at the retry limit
NextAttemptCapped ==
  /\ attempt < MaxAttempt
  /\ attempt' = IF attempt < 10 THEN attempt + 1 ELSE attempt
  /\ since_reset' = since_reset + 1
  /\ prev' = Returned("next_attempt", FALSE, 0)
  /\ UNCHANGED <<initial_delay_ms, max_delay_ms, ebFrame>>

\* next_attempt(): self.attempt += 1
NextAttempt ==
  /\ attempt < MaxAttempt
  /\ attempt' = attempt + 1
  /\ since_reset' = since_reset + 1
  /\ prev' = Returned("next_attempt", FALSE, 0)
  /\ UNCHANGED <<initial_delay_ms, max_delay_ms, ebFrame>>

\* reset(): self.attempt = 0
Reset ==
  /\ attempt' = 0
  /\ since_reset' = 0
  /\ prev' = Returned("reset", FALSE, 0)
  /\ UNCHANGED <<initial_delay_ms, max_delay_ms, ebFrame>>

\* a limit of 10 attempts
RetryLimit == 10

\* mutant: <= in place of <
ShouldRetryInclusive ==
  /\ prev' = Returned("should_retry", attempt <= RetryLimit, 0)
  /\ UNCHANGED <<ebVars, since_reset, ebFrame>>

\* should_retry(): return self.attempt < 10
ShouldRetry ==
  /\ prev' = Returned("should_retry", attempt < RetryLimit, 0)
  /\ UNCHANGED <<ebVars, since_reset, ebFrame>>

\* ------------------------------------------------------ the shared instance
\* no thread has called anything yet
Idle ==
  /\ clock = 0
  /\ pc = [t \in Threads |-> "idle"]
  /\ calls = 0
  /\ num_tokens = [t \in Threads |-> 0]
  /\ tokens_to_add = [t \in Threads |-> 0]
  /\ now = [t \in Threads |-> 0]
  /\ method = [t \in Threads |-> ""]
  /\ reg_args = [t \in Threads |-> <<0, <<0, 1>>>>]
  /\ rate = [t \in Threads |-> <<0, 1>>]
  /\ granted = 0
  /\ added = 0
  /\ admitted_at = <<>>
  /\ since_reset = 0
  /\ prev = NoCall
  /\ last_rate = <<0, 1>>
  /\ snapshot = NoBucket
  /\ lin = [t \in Threads |-> NoCall]

\* the limiter's shared mutable fields, locks aside
Shared ==
  [tokens |-> tokens, last_refill |-> last_refill, requests |-> requests,
   limiters |-> [m \in DOMAIN limiters |-> Unlocked(limiters[m])],
   current_rate |-> current_rate]

\* tb = TokenBucket(c, r), as in main()
InitTB ==
  /\ inst = "TokenBucket"
  /\ Idle
  /\ \E c \in Capacities, r \in Rates : TB_Init(c, r)
  /\ SW_None
  /\ PM_None
  /\ AR_None
  /\ EB_None
  /\ serial = Shared

NextTB ==
  \/ Advance
  \/ Regress
  \/ \E t \in Threads : TA_Call(t)
  \/ \E t \in Threads : TA_Lock(t)
  \/ \E t \in Threads : TA_Refill(t)
  \/ \E t \in Threads : TA_Check(t)
  \/ \E t \in Threads : TA_Take(t)
  \/ \E t \in Threads : TU_Call(t)
  \/ \E t \in Threads : TU_Lock(t)
  \/ \E t \in Threads : TU_Read(t)

SpecTB == InitTB /\ [][NextTB]_vars

\* the arguments TokenBucket.__init__ takes as they come: a capacity of 0
\* and a refill rate of 0 among them
AnyCapacities == 0..MaxCap
AnyRates == Rates \cup {<<0, 1>>}

\* tb = TokenBucket(c, r) for any of these arguments
InitTBAny ==
  /\ inst = "TokenBucket"
  /\ Idle
  /\ \E c \in AnyCapacities, r \in AnyRates : TB_Init(c, r)
  /\ SW_None
  /\ PM_None
  /\ AR_None
  /\ EB_None
  /\ serial = Shared

SpecTBAny == InitTBAny /\ [][NextTB]_vars

\* a refill rate above 1000 tokens per second (main() quotes providers at up
\* to 3,000 per second)
FastRates == {<<3000, 1>>}

\* tb = TokenBucket(c, r) with such a rate
InitTBFast ==
  /\ inst = "TokenBucket"
  /\ Idle
  /\ \E c \in Capacities, r \in FastRates : TB_Init(c, r)
  /\ SW_None
  /\ PM_None
  /\ AR_None
  /\ EB_None
  /\ serial = Shared

SpecTBFast == InitTBFast /\ [][NextTB]_vars

\* the same bucket under a clock that never goes back
NextTBForward ==
  \/ Advance
  \/ \E t \in Threads : TA_Call(t)
  \/ \E t \in Threads : TA_Lock(t)
  \/ \E t \in Threads : TA_Refill(t)
  \/ \E t \in Threads : TA_Check(t)
  \/ \E t \in Threads : TA_Take(t)
  \/ \E t \in Threads : TU_Call(t)
  \/ \E t \in Threads : TU_Lock(t)
  \/ \E t \in Threads : TU_Read(t)

SpecTBForward == InitTB /\ [][NextTBForward]_vars

\* the same bucket, hammered by try_acquire() calls only
NextTBBurst ==
  \/ Advance
  \/ \E t \in Threads : TA_Call(t)
  \/ \E t \in Threads : TA_LockOne(t)
  \/ \E t \in Threads : TA_Refill(t)
  \/ \E t \in Threads : TA_Check(t)
  \/ \E t \in Threads : TA_Take(t)

SpecTBBurst == InitTB /\ [][NextTBBurst]_vars

\* a caller that polls: it calls try_acquire() again whenever it has returned
\* (calls counts up to MaxCalls and stays there)
TA_Poll(t) ==
  /\ pc[t] = "idle"
  /\ pc' = [pc EXCEPT ![t] = "ta_lock"]
  /\ calls' = Min(calls + 1, MaxCalls)
  /\ UNCHANGED <<inst, clock, localVars, tbVars, swVars, pmVars, arVars,
                 ebVars, histVars, serial, lin>>

\* the same bucket under polling callers
NextTBPoll ==
  \/ Advance
  \/ \E t \in Threads : TA_Poll(t)
  \/ \E t \in Threads : TA_LockOne(t)
  \/ \E t \in Threads : TA_Refill(t)
  \/ \E t \in Threads : TA_Check(t)
  \/ \E t \in Threads : TA_Take(t)

\* the clock keeps advancing (up to MaxTime) and the callers keep calling
SpecTBPoll ==
  /\ InitTB
  /\ [][NextTBPoll]_vars
  /\ WF_vars(Advance)
  /\ WF_vars(NextTBPoll /\ pc' # pc)

\* sw = SlidingWindow(m, w), as in main(); its clock never goes back
InitSW ==
  /\ inst = "SlidingWindow"
  /\ Idle
  /\ TB_None
  /\ \E m \in 1..MaxRequests, w \in 1..MaxWindow : SW_Init(m, w)
  /\ PM_None
  /\ AR_None
  /\ EB_None
  /\ serial = Shared

NextSW ==
  \/ Advance
  \/ \E t \in Threads : SA_Call(t)
  \/ \E t \in Threads : SA_Lock(t)
  \/ \E t \in Threads : SA_Prune(t)
  \/ \E t \in Threads : SA_Check(t)
  \/ \E t \in Threads : CR_Call(t)
  \/ \E t \in Threads : CR_Lock(t)
  \/ \E t \in Threads : CR_Count(t)

SpecSW == InitSW /\ [][NextSW]_vars

\* the window under try_acquire() calls only
NextSWBurst ==
  \/ Advance
  \/ \E t \in Threads : SA_Call(t)
  \/ \E t \in Threads : SA_Lock(t)
  \/ \E t \in Threads : SA_Prune(t)
  \/ \E t \in Threads : SA_Check(t)

SpecSWBurst == InitSW /\ [][NextSWBurst]_vars

\* pm = PerMethodLimiter(), as in main(); its clock never goes back
InitPM ==
  /\ inst = "PerMethodLimiter"
  /\ Idle
  /\ TB_None
  /\ SW_None
  /\ PM_Init
  /\ AR_None
  /\ EB_None
  /\ serial = Shared

NextPM ==
  \/ Advance
  \/ \E t \in Threads : PR_Call(t)
  \/ \E t \in Threads : PR_Lock(t)
  \/ \E t \in Threads : PR_Store(t)
  \/ \E t \in Threads : PA_Call(t)
  \/ \E t \in Threads : PA_Lock(t)
  \/ \E t \in Threads : PA_Lookup(t)
  \/ \E t \in Threads : PB_Lock(t)
  \/ \E t \in Threads : PB_Refill(t)
  \/ \E t \in Threads : PB_Check(t)
  \/ \E t \in Threads : PB_Take(t)

SpecPM == InitPM /\ [][NextPM]_vars

\* adaptive = AdaptiveRateLimiter(initial, lo, hi), as in main(); its clock
\* never goes back
InitAR ==
  /\ inst = "AdaptiveRateLimiter"
  /\ Idle
  /\ TB_None
  /\ SW_None
  /\ PM_None
  /\ \E cfg \in RateConfigs : AR_Init(cfg[1], cfg[2], cfg[3])
  /\ EB_None
  /\ serial = Shared

NextAR ==
  \/ Advance
  \/ \E t \in Threads : RS_Call(t)
  \/ \E t \in Threads : RS_Lock(t)
  \/ \E t \in Threads : RS_Compute(t)
  \/ \E t \in Threads : RS_Store(t)
  \/ \E t \in Threads : RE_Call(t)
  \/ \E t \in Threads : RE_Lock(t)
  \/ \E t \in Threads : RE_Compute(t)
  \/ \E t \in Threads : RE_Store(t)
  \/ \E t \in Threads : GR_Call(t)
  \/ \E t \in Threads : GR_Lock(t)
  \/ \E t \in Threads : GR_Read(t)
  \/ \E t \in Threads : GB_Call(t)
  \/ \E t \in Threads : GB_Lock(t)
  \/ \E t \in Threads : GB_Read(t)
  \/ \E t \in Threads : GB_Build(t)

SpecAR == InitAR /\ [][NextAR]_vars

\* the limiter and the bucket it handed out, both in use
NextARBucket ==
  \/ NextAR
  \/ SnapshotTryAcquire

SpecARBucket == InitAR /\ [][NextARBucket]_vars

\* the configurations whose initial rate is inside its bounds
BoundedConfigs ==
  {cfg \in RateConfigs : RLeq(cfg[2], cfg[1]) /\ RLeq(cfg[1], cfg[3])}

\* adaptive = AdaptiveRateLimiter(initial, lo, hi) with lo <= initial <= hi
InitARBounded ==
  /\ inst = "AdaptiveRateLimiter"
  /\ Idle
  /\ TB_None
  /\ SW_None
  /\ PM_None
  /\ \E cfg \in BoundedConfigs : AR_Init(cfg[1], cfg[2], cfg[3])
  /\ EB_None
  /\ serial = Shared

\* a run of record_success() calls, or a run of record_rate_limit_error()
\* calls
NextARStreak ==
  \/ Advance
  \/ \E t \in Threads : RS_Again(t)
  \/ \E t \in Threads : RS_Lock(t)
  \/ \E t \in Threads : RS_Compute(t)
  \/ \E t \in Threads : RS_Store(t)
  \/ \E t \in Threads : RE_Again(t)
  \/ \E t \in Threads : RE_Lock(t)
  \/ \E t \in Threads : RE_Compute(t)
  \/ \E t \in Threads : RE_Store(t)

\* the run does not end: the threads keep calling
SpecARStreak ==
  /\ InitARBounded
  /\ [][NextARStreak]_vars
  /\ WF_vars(NextARStreak /\ pc' # pc)

\* backoff = ExponentialBackoff(initial, max), as in main(): one caller, no
\* lock
InitEB ==
  /\ inst = "ExponentialBackoff"
  /\ Idle
  /\ TB_None
  /\ SW_None
  /\ PM_None
  /\ AR_None
  /\ \E cfg \in BackoffConfigs : EB_Init(cfg[1], cfg[2])
  /\ serial = Shared

NextEB ==
  \/ GetDelayMs
  \/ NextAttempt
  \/ Reset
  \/ ShouldRetry

SpecEB == InitEB /\ [][NextEB]_vars

\* one limiter of any of the four classes, shared by the threads
Init == InitTB \/ InitSW \/ InitPM \/ InitAR

Next ==
  \/ inst = "TokenBucket" /\ NextTB
  \/ inst = "SlidingWindow" /\ NextSW
  \/ inst = "PerMethodLimiter" /\ NextPM
  \/ inst = "AdaptiveRateLimiter" /\ NextAR

Spec == Init /\ [][Next]_vars

\* a step of one of the threads (the other steps are the clock's)
ThreadStep == Next /\ pc' # pc

\* the threads run their calls at one reading of the clock (no method waits
\* for the clock), and the interpreter keeps running them: while one of them
\* can take a step, one does
FairSpec == Init /\ [][ThreadStep]_vars /\ WF_vars(ThreadStep)

\* ------------------------------------------------- TokenBucket, properties
FloorDiv(n, d) == n \div d
CeilDiv(n, d) == -((-n) \div d)

\* floor(elapsed * refillRate) for the clock value read now
FloorCredit == FloorDiv((clock - last_refill) * refill_rate[1], refill_rate[2])

\* operations that have returned
Completed == calls - Cardinality({t \in Threads : pc[t] # "idle"})

\* thread t leaves line `at` in this step
Leaves(t, at) == pc[t] = at /\ pc'[t] # at

\* C1: 0 <= tokens <= capacity in every reachable state, whatever the elapsed
\* times of the try_acquire(n >= 1) and time_until_available_ms calls; and a
\* refill whose credit covers the capacity leaves tokens equal to capacity.
C1_TokenBounds ==
  /\ [](0 <= tokens /\ tokens <= capacity)
  /\ [][\A t \in Threads :
          (Leaves(t, "ta_refill") /\ FloorCredit >= capacity)
             => tokens' = capacity]_vars

\* a drained bucket that a refill after a long interval has filled to capacity
C1_Witness ==
  /\ \E t \in Threads : pc[t] = "ta_check" /\ tokens_to_add[t] > capacity
  /\ granted = capacity
  /\ tokens = capacity

\* C2: threads calling try_acquire(1) concurrently with no refill: of the
\* calls that returned, the first `capacity` were admitted (one token each)
\* and all others denied; tokens = capacity - admitted, 0 once depleted.
\* (Every call asks for one token, so granted counts the True returns.)
C2_BurstExact ==
  added = 0 =>
    /\ tokens = capacity - granted
    /\ granted >= Min(capacity, Completed)
    /\ granted <= capacity
    /\ (\A t \in Threads : pc[t] = "idle") => granted = Min(capacity, Completed)

\* more calls than tokens have returned: exactly `capacity` were admitted
C2_Witness ==
  /\ added = 0
  /\ \A t \in Threads : pc[t] = "idle"
  /\ Completed > capacity
  /\ granted = capacity
  /\ tokens = 0
  /\ prev = Returned("ta", FALSE, 0)

\* C4: the availability check is reached only through the refill step, which
\* with tokensToAdd = floor((now - lastRefill) * refillRate) > 0 sets tokens
\* to min(tokens + tokensToAdd, capacity) and lastRefill to now, and else
\* changes neither.
C4_RefillStep ==
  [][\A t \in Threads :
       (pc'[t] = "ta_check" /\ pc[t] # "ta_check") =>
          /\ pc[t] = "ta_refill"
          /\ IF FloorCredit > 0
             THEN /\ tokens' = Min(tokens + FloorCredit, capacity)
                  /\ last_refill' = clock
             ELSE /\ tokens' = tokens
                  /\ last_refill' = last_refill]_vars

\* at rate 3/2 a refill 1 s after construction credited floor(1.5) = 1 token
\* and moved last_refill to now: the half token's time is gone
C4_Witness ==
  /\ refill_rate = <<3, 2>>
  /\ \E t \in Threads : pc[t] = "ta_check" /\ tokens_to_add[t] = 1
  /\ last_refill = 1
  /\ clock = 1
  /\ added = 1

\* C5: try_acquire(n) returns True and takes exactly n tokens iff the
\* post-refill count is >= n; otherwise it returns False and leaves tokens
\* (and lastRefill) as the refill step left them.
C5_Admission ==
  [][\A t \in Threads :
       /\ Leaves(t, "ta_check") =>
            /\ tokens' = tokens
            /\ last_refill' = last_refill
            /\ IF tokens >= num_tokens[t]
               THEN pc'[t] = "ta_take" /\ prev' = prev
               ELSE pc'[t] = "idle" /\ prev' = Returned("ta", FALSE, 0)
       /\ Leaves(t, "ta_take") =>
            /\ tokens >= num_tokens[t]
            /\ tokens' = tokens - num_tokens[t]
            /\ last_refill' = last_refill
            /\ pc'[t] = "idle"
            /\ prev' = Returned("ta", TRUE, 0)]_vars

\* a call was denied although tokens were left (fewer than it asked for)
C5_Witness ==
  /\ prev = Returned("ta", FALSE, 0)
  /\ tokens > 0
  /\ granted > 0
  /\ \A t \in Threads : pc[t] = "idle"

\* C6: a try_acquire that computes tokens_to_add = 0 leaves last_refill (and
\* tokens) unchanged, so the time elapsed since last_refill keeps counting.
C6_NoAdvanceOnZeroAdd ==
  [][\A t \in Threads :
       (Leaves(t, "ta_refill") /\ tokens_to_add'[t] = 0) =>
          /\ last_refill' = last_refill
          /\ tokens' = tokens]_vars

\* at rate 1/2 a call 1 s after construction computed no credit and left
\* last_refill at the construction time
C6_Witness ==
  /\ refill_rate = <<1, 2>>
  /\ \E t \in Threads : pc[t] = "ta_check" /\ tokens_to_add[t] = 0
  /\ clock = 1
  /\ last_refill = 0
  /\ tokens = 0

\* C7: a new bucket is full; before any refill a try_acquire(capacity) on the
\* untouched bucket is admitted, and once the initial tokens are taken every
\* try_acquire (of capacity, or of 1) is denied.
C7_InitialBurst ==
  /\ tokens = capacity
  /\ [][\A t \in Threads :
          (Leaves(t, "ta_check") /\ added = 0) =>
             /\ (granted = 0 /\ num_tokens[t] = capacity) => pc'[t] = "ta_take"
             /\ granted = capacity => prev' = Returned("ta", FALSE, 0)]_vars

\* two calls returned without a refill: a try_acquire(capacity) that took
\* every token and then a denied call
C7_Witness ==
  /\ added = 0
  /\ capacity > 1
  /\ calls = 2
  /\ \A t \in Threads : pc[t] = "idle"
  /\ granted = capacity
  /\ prev = Returned("ta", FALSE, 0)

\* C8, as claimed: time_until_available_ms returns 0 when a token is present
\* and otherwise ceil(1000 / refillRate), e.g. 334 for refillRate = 3 (and
\* 667 for refillRate = 3/2).
C8_CeilWait ==
  [][\A t \in Threads :
       Leaves(t, "tu_read") =>
          prev' = Returned("tu", FALSE,
                           IF tokens > 0 THEN 0
                           ELSE CeilDiv(1000 * refill_rate[2], refill_rate[1]))
    ]_vars

\* C9, as claimed: time_until_available_ms performs the refill computation
\* (tokens and lastRefill move as in try_acquire when a credit is due).
C9_WaitRefills ==
  [][\A t \in Threads :
       (Leaves(t, "tu_read") /\ FloorCredit > 0) =>
          /\ tokens' = Min(tokens + FloorCredit, capacity)
          /\ last_refill' = clock]_vars

\* ----------------------------------------------- SlidingWindow, properties
\* the entries of the log that are not older than the window at time t_now
InWindow(reqs, t_now, w) ==
  LET Fresh(ts) == t_now - ts <= w
  IN SelectSeq(reqs, Fresh)

\* C10: SlidingWindow.try_acquire first removes every entry older than
\* windowDuration at the time `now` it reads, then appends now and returns
\* True iff the pruned log has fewer than maxRequests entries; otherwise it
\* returns False and leaves the pruned log as it is.  (The clock of this
\* specification never goes back: the log is pruned from its old end.)
C10_WindowAcquire ==
  [][\A t \in Threads :
       /\ (pc'[t] = "sa_check" /\ pc[t] # "sa_check") => pc[t] = "sa_prune"
       /\ Leaves(t, "sa_prune") =>
            /\ pc'[t] = "sa_check"
            /\ now'[t] = clock
            /\ requests' = InWindow(requests, clock, window_duration)
       /\ Leaves(t, "sa_check") =>
            /\ pc'[t] = "idle"
            /\ IF Len(requests) < max_requests
               THEN /\ requests' = Append(requests, now[t])
                    /\ prev' = Returned("sa", TRUE, 0)
               ELSE /\ requests' = requests
                    /\ prev' = Returned("sa", FALSE, 0)]_vars

\* an admitted request has been pruned since, and the call that pruned it is
\* about to be admitted into the emptied log
C10_Witness ==
  /\ prev = Returned("sa", TRUE, 0)
  /\ requests = <<>>
  /\ \E t \in Threads : pc[t] = "sa_check" /\ now[t] > window_duration

\* ------------------------------------------------------- linearizability
\* the threads inside each lock's critical section
InTB == {t \in Threads : pc[t] \in {"ta_refill", "ta_check", "ta_take",
                                     "tu_read"}}
InSW == {t \in Threads : pc[t] \in {"sa_prune", "sa_check", "cr_count"}}
InPM == {t \in Threads : pc[t] \in {"pr_store", "pa_lookup", "pb_lock",
                                     "pb_refill", "pb_check", "pb_take"}}
InAR == {t \in Threads : pc[t] \in {"rs_compute", "rs_store", "re_compute",
                                     "re_store", "gr_read", "gb_read"}}
InStored(m) == {t \in Threads : /\ pc[t] \in {"pb_refill", "pb_check",
                                              "pb_take"}
                                /\ method[t] = m}

\* lock l is held by the one thread of `inside`, or free when there is none
Guards(l, inside) ==
  /\ Cardinality(inside) <= 1
  /\ inside = {} => l = NoThread
  /\ \A t \in inside : l = t

\* threads whose call has taken its place in the serial run and has not
\* finished writing the shared fields
Writing == {t \in Threads : pc[t] \in {"ta_check", "ta_take", "sa_check",
                                        "pb_check", "pb_take", "rs_store",
                                        "re_store"}}

\* thread t returns from its call in this step
Returns(t) == pc[t] # "idle" /\ pc'[t] = "idle"

\* what t's call returns in this step is what it returns in the serial run
SerialReturn(t) ==
  /\ pc[t] \in {"ta_check", "ta_take", "sa_check", "pb_check", "pb_take"}
       => prev' = lin[t]
  /\ pc[t] = "tu_read"
       => prev' = Returned("tu", FALSE,
                           IF serial.tokens > 0 THEN 0
                           ELSE IntTrunc(1000 * refill_rate[2],
                                         refill_rate[1]))
  /\ pc[t] = "cr_count"
       => prev' = Returned("cr", FALSE,
                           Len(InWindow(serial.requests, clock,
                                        window_duration)))
  /\ pc[t] = "pa_lookup"
       => prev' = Returned("pa", method[t] \notin DOMAIN serial.limiters, 0)
  /\ pc[t] = "gr_read" => last_rate' = serial.current_rate
  /\ pc[t] = "gb_build"
       => /\ snapshot'.refill_rate = lin[t].val
          /\ snapshot'.capacity =
               Max(FloorDiv(lin[t].val[1], lin[t].val[2]), 1)

\* C3: each instance has one exclusive lock with at most one thread inside
\* its critical section (the stored buckets of a PerMethodLimiter included);
\* whenever no call is half-way through its writes the shared fields are
\* those of the calls run one at a time, each at the step inside its critical
\* section where it reads the clock or the fields; and every call returns
\* what it returns in that serial run.
C3_Linearizable ==
  /\ [](/\ Guards(tb_lock, InTB)
        /\ Guards(sw_lock, InSW)
        /\ Guards(pm_lock, InPM)
        /\ Guards(ar_lock, InAR)
        /\ \A m \in DOMAIN limiters : Guards(limiters[m].lock, InStored(m))
        /\ Writing = {} => Shared = serial)
  /\ [][\A t \in Threads : Returns(t) => SerialReturn(t)]_vars

\* after a first call returned, one thread is about to take its tokens (the
\* serial run already has them taken) while another waits for the lock
C3_Witness ==
  \E t, u \in Threads :
    /\ pc[t] = "ta_take"
    /\ pc[u] = "ta_lock"
    /\ prev = Returned("ta", TRUE, 0)
    /\ serial.tokens = tokens - num_tokens[t]

\* ------------------------------------- SlidingWindow, cap and freshness
\* the admitted requests whose timestamps lie in [lo, hi]
AdmittedIn(lo, hi) ==
  Cardinality({i \in DOMAIN admitted_at :
                 lo <= admitted_at[i] /\ admitted_at[i] <= hi})

\* C11: under a non-decreasing clock and any interleaving, the request log
\* never holds more than maxRequests entries, and for every time t at most
\* maxRequests admitted requests have their timestamp in
\* [t - windowDuration, t].
C11_HardCap ==
  /\ Len(requests) <= max_requests
  /\ \A t \in Times : AdmittedIn(t - window_duration, t) <= max_requests

\* more requests were admitted than the window holds, the window is full
\* again and the last call was denied
C11_Witness ==
  /\ Len(admitted_at) > max_requests
  /\ Len(requests) = max_requests
  /\ prev = Returned("sa", FALSE, 0)

\* every entry of the log is within the window at time t_now
AllFresh(reqs, t_now) ==
  \A i \in DOMAIN reqs : t_now - reqs[i] <= window_duration

\* C12: when try_acquire takes its count the stale entries are gone, and right
\* after a try_acquire or a current_requests executed at time `now` every
\* timestamp ts left in the log has now - ts <= windowDuration.
C12_Freshness ==
  /\ [](\A t \in Threads : pc[t] = "sa_check" => AllFresh(requests, now[t]))
  /\ [][\A t \in Threads :
         /\ Leaves(t, "sa_check") => AllFresh(requests', now[t])
         /\ Leaves(t, "cr_count") => AllFresh(requests', clock)]_vars

\* a call has pruned an old entry and kept one that is exactly
\* windowDuration old
C12_Witness ==
  \E t \in Threads :
    /\ pc[t] = "sa_check"
    /\ requests # <<>>
    /\ Len(admitted_at) > Len(requests)
    /\ now[t] - Head(requests) = window_duration

\* C13: with maxRequests = M, of the try_acquire calls made at one instant on
\* a new window the first M succeed and the later ones fail; and a
\* try_acquire that reads a clock more than windowDuration past the oldest
\* logged timestamp succeeds.
C13_Recovery ==
  /\ [](clock = 0 => Len(admitted_at) = Min(Completed, max_requests))
  /\ [][\A t \in Threads :
         /\ (/\ Leaves(t, "sa_prune")
             /\ requests # <<>>
             /\ clock - Head(requests) > window_duration) => lin'[t].ok
         /\ Leaves(t, "sa_check") => prev'.ok = lin[t].ok]_vars

\* M calls were admitted, one more was denied, and a call made after the
\* window had passed was admitted again
C13_Witness ==
  /\ Completed = max_requests + 2
  /\ Len(admitted_at) = max_requests + 1
  /\ prev = Returned("sa", TRUE, 0)
  /\ requests = <<clock>>
  /\ clock > window_duration

\* C14: current_requests prunes the log as try_acquire does, returns the
\* length of the pruned log, and appends nothing.
C14_CurrentRequests ==
  [][\A t \in Threads :
       Leaves(t, "cr_count") =>
         /\ pc'[t] = "idle"
         /\ requests' = InWindow(requests, clock, window_duration)
         /\ prev' = Returned("cr", FALSE, Len(requests'))
         /\ admitted_at' = admitted_at]_vars

\* two calls were made and have returned: a try_acquire that was admitted
\* and a current_requests that emptied the log and returned 0
C14_Witness ==
  /\ calls = 2
  /\ Completed = 2
  /\ admitted_at # <<>>
  /\ requests = <<>>
  /\ prev = Returned("cr", FALSE, 0)

\* C15: in every reachable state the request log is ordered oldest first,
\* with non-decreasing timestamps, whatever the interleaving of the threads.
C15_LogOrdered ==
  \A i, j \in DOMAIN requests : i < j => requests[i] <= requests[j]

\* the log holds two requests admitted at different times and a third call
\* waits for the lock
C15_Witness ==
  /\ Len(requests) = 2
  /\ requests[1] < requests[2]
  /\ \E t \in Threads : pc[t] = "sa_lock"

\* --------------------------------------------- PerMethodLimiter, properties
\* the stored bucket's try_acquire(1) run alone on bucket b at time t_now
BucketAcquireAlone(b, t_now) ==
  TryAcquireAlone(b.tokens, b.last_refill, b.capacity, b.refill_rate, t_now, 1)

\* the registry is the same but for the entry of method m
SameButFor(m) ==
  /\ DOMAIN limiters' = DOMAIN limiters \cup {m}
  /\ \A x \in DOMAIN limiters \ {m} : limiters'[x] = limiters[x]

\* C16: try_acquire(name) for a name that is not registered returns True and
\* changes no bucket, whatever is registered or depleted.
C16_FailOpen ==
  [][\A t \in Threads :
       (Leaves(t, "pa_lookup") /\ method[t] \notin DOMAIN limiters) =>
         /\ pc'[t] = "idle"
         /\ prev' = Returned("pa", TRUE, 0)
         /\ limiters' = limiters]_vars

\* a call for a name that is not registered is at its lookup while the
\* registered bucket is empty
C16_Witness ==
  \E t \in Threads :
    /\ pc[t] = "pa_lookup"
    /\ method[t] \notin DOMAIN limiters
    /\ \E m \in DOMAIN limiters : limiters[m].tokens = 0

\* C17: for a registered name try_acquire(name) runs the stored bucket's
\* try_acquire(1): it returns what that call returns on the bucket as it
\* stands, leaves the bucket as that call leaves it, and takes one token when
\* it returns True.
C17_Delegation ==
  [][\A t \in Threads :
       LET m == method[t]
       IN /\ (Leaves(t, "pa_lookup") /\ m \in DOMAIN limiters) =>
               pc'[t] = "pb_lock" /\ num_tokens'[t] = 1
          /\ Leaves(t, "pb_refill") =>
               LET alone == BucketAcquireAlone(limiters[m], clock)
               IN /\ lin'[t] = Returned("pa", alone.ok, 0)
                  /\ serial'.limiters[m].tokens = alone.tokens
                  /\ serial'.limiters[m].last_refill = alone.last_refill
          /\ (pc[t] \in {"pb_check", "pb_take"} /\ Returns(t)) =>
               /\ prev' = lin[t]
               /\ Unlocked(limiters'[m]) = serial.limiters[m]
               /\ SameButFor(m)
               /\ limiters'[m].tokens =
                    limiters[m].tokens - (IF prev'.ok THEN 1 ELSE 0)]_vars

\* register_method(m, 1, r), then try_acquire(m) returned True and a second
\* try_acquire(m) at the same instant returned False
C17_Witness ==
  /\ calls = 3
  /\ Completed = 3
  /\ clock = 0
  /\ prev = Returned("pa", FALSE, 0)
  /\ \E m \in DOMAIN limiters :
       limiters[m].capacity = 1 /\ limiters[m].tokens = 0

\* C18: register_method(name, capacity, refillRate) stores a new full bucket
\* for name, whatever was stored for it before, and leaves the other entries
\* alone; every name of the registry has one bucket.
C18_Reregistration ==
  /\ [](DOMAIN limiters \subseteq Methods)
  /\ [][\A t \in Threads :
         Leaves(t, "pr_store") =>
           /\ SameButFor(method[t])
           /\ limiters'[method[t]] =
                Bucket(reg_args[t][1], reg_args[t][1], reg_args[t][2], clock,
                       NoThread)]_vars

\* a method whose bucket has been drawn from is about to be registered again,
\* at a later time
C18_Witness ==
  \E t \in Threads :
    /\ pc[t] = "pr_store"
    /\ method[t] \in DOMAIN limiters
    /\ limiters[method[t]].tokens < limiters[method[t]].capacity
    /\ limiters[method[t]].last_refill < clock

\* a bucket as TokenBucket.__init__ and try_acquire leave it
Constructed(b) ==
  /\ b.capacity \in Capacities
  /\ b.refill_rate \in Rates
  /\ b.tokens \in 0..b.capacity
  /\ b.last_refill \in Times

\* C19: register_method and try_acquire exclude each other through the
\* registry lock; every entry a lookup can see is a constructed bucket; while
\* a try_acquire is inside its critical section no other thread changes the
\* registry; and the token of an admitted call is taken from one bucket.
C19_AtomicVisibility ==
  /\ [](/\ Guards(pm_lock, InPM)
        /\ \A m \in DOMAIN limiters : Constructed(limiters[m]))
  /\ [][\A t \in Threads :
         /\ (pc[t] \in {"pa_lookup", "pb_lock", "pb_refill", "pb_check",
                        "pb_take"} /\ pc'[t] = pc[t]) => limiters' = limiters
         /\ Leaves(t, "pb_take") =>
              Cardinality({m \in DOMAIN limiters' :
                             \/ m \notin DOMAIN limiters
                             \/ limiters'[m].tokens # limiters[m].tokens}) = 1
       ]_vars

\* a try_acquire is about to take its token from a registered bucket while
\* a register_method waits for the registry lock
C19_Witness ==
  \E t, u \in Threads :
    /\ pc[t] = "pb_take"
    /\ pc[u] = "pr_lock"

\* ------------------------------------------- ExponentialBackoff, properties
\* min(initialDelay * 2^n, maxDelay) at the current attempt n.  (2^15 times
\* an initial delay of BackoffConfigs is past its maximum delay.)
ClaimedDelay ==
  IF attempt <= 15
  THEN Min(initial_delay_ms * Power(attempt), max_delay_ms)
  ELSE max_delay_ms

\* C20, as claimed: for every attempt count n >= 0 get_delay_ms() returns
\* min(initialDelay * 2^n, maxDelay) (100, 200, ..., 25600, 30000 at attempts
\* 0..9 for initialDelay = 100, maxDelay = 30000).
C20_DelayFormula ==
  [][prev'.op \in {"get_delay_ms", "OverflowError"} =>
       prev' = Returned("get_delay_ms", FALSE, ClaimedDelay)]_vars


\* ---------------------------------------------------------------------
\* ExponentialBackoff: retry cap, reset, attempt discipline

\* C21: should_retry() returns True exactly when attempt < 10; counting
\* from construction or the last reset(), it is False once next_attempt()
\* has been called 10 times, and stays False until reset().
C21_RetryCap ==
  [][prev'.op = "should_retry" =>
       /\ prev'.ok <=> (attempt < 10)
       /\ prev'.ok <=> (since_reset < 10)]_vars

C21_Witness ==
  /\ inst = "ExponentialBackoff"
  /\ prev = Returned("should_retry", FALSE, 0)
  /\ since_reset = 10

\* C22: reset() sets attempt to 0; right after it get_delay_ms() returns
\* initialDelay and should_retry() returns True; a second reset() changes
\* nothing.
C22_Reset ==
  [][/\ prev'.op = "reset" => attempt' = 0
     /\ prev.op = "reset" /\ prev'.op \in {"get_delay_ms", "OverflowError"}
          => prev' = Returned("get_delay_ms", FALSE, initial_delay_ms)
     /\ prev.op = "reset" /\ prev'.op = "should_retry" => prev'.ok]_vars

\* C23: get_delay_ms() and should_retry() leave attempt alone,
\* next_attempt() adds exactly 1 whatever the value, and attempt is never
\* negative and equals the number of next_attempt() calls since
\* construction or the last reset().
C23_AttemptDiscipline ==
  /\ [](inst = "ExponentialBackoff" =>
          attempt >= 0 /\ attempt = since_reset)
  /\ [][/\ prev'.op \in {"get_delay_ms", "OverflowError", "should_retry"}
             => attempt' = attempt
        /\ prev'.op = "next_attempt" => attempt' = attempt + 1]_vars

C23_Witness ==
  /\ inst = "ExponentialBackoff"
  /\ prev.op = "next_attempt"
  /\ attempt = 11

\* ---------------------------------------------------------------------
\* AdaptiveRateLimiter, properties

\* a/b <= c/d, by cross-multiplication
RatLeq(a, b, c, d) == a * d <= c * b

\* min_rate <= r <= max_rate
WithinBounds(r) ==
  /\ RatLeq(min_rate[1], min_rate[2], r[1], r[2])
  /\ RatLeq(r[1], r[2], max_rate[1], max_rate[2])

\* C24: after any sequence or interleaving of record_success() and
\* record_rate_limit_error() calls, min_rate <= current_rate <= max_rate
\* (between 5 and 100 for initial 50, min 5, max 100).
C24_RateBounds ==
  inst = "AdaptiveRateLimiter" /\ prev.op \in {"rs", "re"}
    => WithinBounds(current_rate)

\* the rate r' is r * 11/10 when that is at most max_rate, else max_rate
IsSuccessUpdate(r, new) ==
  IF RatLeq(11 * r[1], 10 * r[2], max_rate[1], max_rate[2])
  THEN new[1] * 10 * r[2] = 11 * r[1] * new[2]
  ELSE new[1] * max_rate[2] = max_rate[1] * new[2]

\* the rate r' is r / 2 when that is at least min_rate, else min_rate
IsErrorUpdate(r, new) ==
  IF RatLeq(min_rate[1], min_rate[2], r[1], 2 * r[2])
  THEN new[1] * 2 * r[2] = r[1] * new[2]
  ELSE new[1] * min_rate[2] = min_rate[1] * new[2]

CapacityFor(r) == Max(FloorDiv(r[1], r[2]), 1)

\* C26: get_token_bucket() returns a new full TokenBucket of capacity
\* max(floor(r), 1) and refill rate r, r being the one value of current_rate
\* that it read under the lock; whatever record_success() and
\* record_rate_limit_error() do meanwhile, the returned bucket has
\* capacity = max(floor(refill_rate), 1).
C26_TokenBucket ==
  /\ [](inst = "AdaptiveRateLimiter" /\ snapshot # NoBucket =>
          snapshot.capacity = CapacityFor(snapshot.refill_rate))
  /\ [][\A t \in Threads :
          /\ Leaves(t, "gb_read") =>
               ar_lock = t /\ rate'[t] = current_rate
          /\ Leaves(t, "gb_build") =>
               /\ ar_lock # t
               /\ snapshot'.refill_rate = rate[t]
               /\ snapshot'.capacity = CapacityFor(rate[t])
               /\ snapshot'.tokens = snapshot'.capacity
               /\ snapshot'.last_refill = clock
               /\ snapshot'.lock = NoThread
       ]_vars

C26_Witness ==
  /\ inst = "AdaptiveRateLimiter"
  /\ prev.op = "gb"
  /\ snapshot # NoBucket
  /\ snapshot.refill_rate # current_rate
  /\ snapshot.capacity # CapacityFor(current_rate)

\* this step is a try_acquire() on the returned bucket
SnapshotStep == calls' = calls + 1 /\ pc' = pc

\* C27: a try_acquire() on a returned bucket leaves the limiter's
\* current_rate, min_rate and max_rate as they are, and a later
\* record_success() or record_rate_limit_error() leaves the capacity, refill
\* rate and tokens of the returned bucket as they are.
C27_SnapshotIsolation ==
  [][/\ SnapshotStep =>
          <<current_rate, min_rate, max_rate>>' =
            <<current_rate, min_rate, max_rate>>
     /\ \A t \in Threads :
          Leaves(t, "rs_store") \/ Leaves(t, "re_store") =>
            /\ snapshot'.capacity = snapshot.capacity
            /\ snapshot'.refill_rate = snapshot.refill_rate
            /\ snapshot'.tokens = snapshot.tokens
    ]_vars

C27_Witness ==
  /\ inst = "AdaptiveRateLimiter"
  /\ snapshot # NoBucket
  /\ snapshot.tokens < snapshot.capacity
  /\ prev.op \in {"rs", "re"}
  /\ snapshot.refill_rate # current_rate

\* ---------------------------------------------------------------------
\* construction and failures

\* C28, as claimed: a TokenBucket with refill_rate <= 0 or capacity < 1 is
\* never produced, the construction fails.
C28_BucketArguments ==
  inst = "TokenBucket" => capacity >= 1 /\ refill_rate[1] > 0

\* C29, as claimed: no AdaptiveRateLimiter exists whose rates are not
\* min_rate <= current_rate <= max_rate and no ExponentialBackoff whose
\* initial delay is above its maximum delay, the constructors reject them.
C29_ConsistentBounds ==
  /\ inst = "AdaptiveRateLimiter" =>
       /\ RatLeq(min_rate[1], min_rate[2], max_rate[1], max_rate[2])
       /\ WithinBounds(current_rate)
  /\ inst = "ExponentialBackoff" => initial_delay_ms <= max_delay_ms

\* C30, as claimed: at any attempt count and in every reachable state the
\* methods return a value, none of them raises.
C30_NeverRaises ==
  [][prev'.op \notin {"OverflowError", "ZeroDivisionError"}]_vars

\* ---------------------------------------------------------------------
\* termination

\* the lines at which a thread asks for a lock
LockLines == {"ta_lock", "tu_lock", "sa_lock", "cr_lock", "pr_lock",
              "pa_lock", "pb_lock", "rs_lock", "re_lock", "gr_lock",
              "gb_lock"}

\* the holder of the lock that thread t asks for
Wanted(t) ==
  CASE pc[t] \in {"ta_lock", "tu_lock"} -> tb_lock
    [] pc[t] \in {"sa_lock", "cr_lock"} -> sw_lock
    [] pc[t] \in {"pr_lock", "pa_lock"} -> pm_lock
    [] pc[t] = "pb_lock" -> limiters[method[t]].lock
    [] OTHER -> ar_lock

\* thread t asks for a lock that is held
Blocked(t) == pc[t] \in LockLines /\ Wanted(t) # NoThread

\* C31: under any interleaving every operation returns: a thread waits only
\* for a lock, never for one it holds itself, the holder of the lock it
\* waits for is not blocked in turn (registry lock then bucket lock in
\* PerMethodLimiter.try_acquire, the lock of get_token_bucket), and every
\* call that has started comes back.
C31_Termination ==
  /\ [](\A t \in Threads :
          pc[t] \in LockLines =>
            /\ Wanted(t) # t
            /\ Wanted(t) # NoThread => ~Blocked(Wanted(t)))
  /\ \A t \in Threads : (pc[t] # "idle") ~> (pc[t] = "idle")

\* a thread waits for the registry lock while another, holding it, is about
\* to take the bucket's lock
C31_Witness ==
  \E t, u \in Threads :
    /\ pc[t] = "pa_lock"
    /\ pc[u] = "pb_lock"
    /\ pm_lock = u

\* ---------------------------------------------------------------------
\* TokenBucket: eventual admission, throughput, oversized requests

\* no more tokens than this are granted by time MaxTime (rates are below 2)
GrantBound == MaxCap + 2 * MaxTime

\* the time left up to MaxTime is worth a token
TokenDue ==
  FloorDiv((MaxTime - last_refill) * refill_rate[1], refill_rate[2]) >= 1

\* C32: on a depleted bucket, with the clock advancing and callers polling
\* try_acquire(1), some call is admitted in the end, also when the polls come
\* faster than the tokens (a poll that adds no token leaves last_refill where
\* it is).  The clock stops at MaxTime: the bucket is one to which a token is
\* due by then.
C32_EventualAdmission ==
  \A g \in 0..GrantBound :
    (tokens = 0 /\ granted = g /\ TokenDue) ~> (granted > g)

\* a poll was denied on the depleted bucket after time had passed, and the
\* time that passed is kept
C32_Witness ==
  /\ inst = "TokenBucket"
  /\ tokens = 0
  /\ prev = Returned("ta", FALSE, 0)
  /\ clock > last_refill
  /\ clock < MaxTime
  /\ TokenDue
  /\ \A t \in Threads : pc[t] = "idle"

\* ---------------------------------------------------------------------
\* AdaptiveRateLimiter: convergence

\* the rates p and q are equal
RatEq(p, q) == p[1] * q[2] = q[1] * p[2]

\* the run of successes has arrived at max_rate, the run of errors at
\* min_rate
Converged ==
  \/ prev.op = "rs" /\ RatEq(current_rate, max_rate)
  \/ prev.op = "re" /\ RatEq(current_rate, min_rate)

\* C33: from a rate inside [min_rate, max_rate], min_rate > 0, a run of
\* record_rate_limit_error() calls brings current_rate to min_rate exactly
\* after finitely many calls and a run of record_success() calls brings it
\* to max_rate exactly; record_success() at max_rate and
\* record_rate_limit_error() at min_rate leave current_rate as it is.
C33_Convergence ==
  /\ <>[]Converged
  /\ [][\A t \in Threads :
          /\ Leaves(t, "rs_store") /\ RatEq(current_rate, max_rate)
               => current_rate' = current_rate
          /\ Leaves(t, "re_store") /\ RatEq(current_rate, min_rate)
               => current_rate' = current_rate]_vars

\* a record_rate_limit_error() about to store min_rate = 5 over min_rate,
\* which four errors reach from 50
C33_Witness ==
  /\ inst = "AdaptiveRateLimiter"
  /\ min_rate = <<5, 1>>
  /\ max_rate = <<100, 1>>
  /\ min_rate[1] > 0
  /\ current_rate = min_rate
  /\ \E t \in Threads : pc[t] = "re_store" /\ rate[t] = min_rate

\* C34: with a clock that never goes back, whatever the try_acquire calls
\* and their interleaving, the tokens granted from the construction (at time
\* 0) up to any time t are at most capacity + refill_rate * t.
C34_Throughput ==
  inst = "TokenBucket" =>
    granted * refill_rate[2] <=
      capacity * refill_rate[2] + refill_rate[1] * clock

\* the bound is met: the burst and every token of the refill were granted
C34_Witness ==
  /\ inst = "TokenBucket"
  /\ clock > 0
  /\ granted > capacity
  /\ granted * refill_rate[2] =
       capacity * refill_rate[2] + refill_rate[1] * clock

\* C35, as claimed: when time_until_available_ms() has returned 0 and no
\* other operation came between, the next try_acquire(1) is admitted,
\* whatever the clock shows at that call.
C35_ZeroWaitAdmits ==
  [][\A t \in Threads :
       /\ Leaves(t, "ta_check")
       /\ num_tokens[t] = 1
       /\ prev = Returned("tu", FALSE, 0)
       => pc'[t] = "ta_take"]_vars

\* C36: try_acquire(n) with n > capacity returns False in every reachable
\* state, however much time has passed, and takes no token.
C36_Oversized ==
  [][\A t \in Threads :
       /\ Leaves(t, "ta_check") /\ num_tokens[t] > capacity =>
            /\ prev' = Returned("ta", FALSE, 0)
            /\ pc'[t] = "idle"
            /\ tokens' = tokens
       /\ Leaves(t, "ta_take") =>
            num_tokens[t] <= capacity /\ tokens' = tokens - num_tokens[t]
    ]_vars

\* an oversized request meets a bucket that a long wait has filled again
C36_Witness ==
  /\ inst = "TokenBucket"
  /\ tokens = capacity
  /\ granted > 0
  /\ \E t \in Threads :
       /\ pc[t] = "ta_check"
       /\ num_tokens[t] > capacity
       /\ tokens_to_add[t] >= capacity

\* ---------------------------------------------------------------------
\* PerMethodLimiter: isolation

\* the lines of PerMethodLimiter.try_acquire past the registry lock
AcquireLines == {"pa_lookup", "pb_lock", "pb_refill", "pb_check", "pb_take"}

\* the entries under other names than m keep their tokens and last_refill
OthersKept(m) ==
  \A x \in DOMAIN limiters \ {m} :
    /\ x \in DOMAIN limiters'
    /\ limiters'[x].tokens = limiters[x].tokens
    /\ limiters'[x].last_refill = limiters[x].last_refill

\* C37: try_acquire(a) changes the bucket registered for a only: the tokens
\* and last_refill of the buckets under other names stay, and for a name
\* that is not registered the registry stays as it is, no entry is made;
\* register_method(a, ...) leaves the entries under other names as they are.
C37_Isolation ==
  [][\A t \in Threads :
       /\ (pc[t] \in AcquireLines /\ pc'[t] # pc[t]) =>
            /\ OthersKept(method[t])
            /\ DOMAIN limiters' = DOMAIN limiters
            /\ method[t] \notin DOMAIN limiters => limiters' = limiters
       /\ Leaves(t, "pr_store") =>
            \A x \in DOMAIN limiters \ {method[t]} :
              x \in DOMAIN limiters' /\ limiters'[x] = limiters[x]
    ]_vars

\* two names are registered; a token was taken from the bucket of one and the
\* bucket of the other is full
C37_Witness ==
  /\ inst = "PerMethodLimiter"
  /\ prev = Returned("pa", TRUE, 0)
  /\ \E a, b \in DOMAIN limiters :
       /\ a # b
       /\ limiters[a].tokens < limiters[a].capacity
       /\ limiters[b].tokens = limiters[b].capacity

\* ---------------------------------------------------------------------
\* ExponentialBackoff: monotone, bounded delays

\* what get_delay_ms() returned one attempt earlier
DelayBefore == DelayMs(initial_delay_ms, attempt - 1, max_delay_ms)

\* C38, as claimed: for initialDelay <= maxDelay, get_delay_ms() returns at
\* every attempt a delay in [initialDelay, maxDelay] that is not below the
\* delay of the attempt before, and equal to maxDelay once that one was.
C38_MonotoneBounded ==
  [][(/\ prev'.op \in {"get_delay_ms", "OverflowError"}
      /\ initial_delay_ms <= max_delay_ms) =>
       /\ prev'.op = "get_delay_ms"
       /\ initial_delay_ms <= prev'.val
       /\ prev'.val <= max_delay_ms
       /\ attempt > 0 =>
            /\ DelayBefore <= prev'.val
            /\ DelayBefore = max_delay_ms => prev'.val = max_delay_ms
    ]_vars

\* ---------------------------------------------------------------------
\* SlidingWindow: the boundary of the window

\* the time of the last admission
BurstTime == admitted_at[Len(admitted_at)]

\* the last max_requests admissions were made at one time
BurstFull ==
  /\ Len(admitted_at) >= max_requests
  /\ \A i \in (Len(admitted_at) - max_requests + 1)..Len(admitted_at) :
       admitted_at[i] = BurstTime

\* C39: an entry exactly window_duration old is not pruned (pruning asks for
\* now - ts > window_duration): after max_requests admissions at time t0 a
\* try_acquire at t0 + window_duration is denied, and one at any later time
\* is admitted.
C39_Boundary ==
  [][\A t \in Threads :
       /\ (/\ Leaves(t, "sa_prune")
           /\ requests # <<>>
           /\ clock - Head(requests) = window_duration) =>
            requests' = requests
       /\ (Leaves(t, "sa_check") /\ BurstFull) =>
            /\ now[t] = BurstTime + window_duration =>
                 prev' = Returned("sa", FALSE, 0) /\ requests' = requests
            /\ now[t] > BurstTime + window_duration =>
                 prev' = Returned("sa", TRUE, 0) /\ requests' = <<now[t]>>
    ]_vars

\* a call made exactly window_duration after a full burst is at its check,
\* the burst still in the log
C39_Witness ==
  /\ inst = "SlidingWindow"
  /\ BurstFull
  /\ Len(requests) = max_requests
  /\ \E t \in Threads :
       /\ pc[t] = "sa_check"
       /\ now[t] = BurstTime + window_duration

\* ---------------------------------------------------------------------
\* TokenBucket: the clock set back

\* C40: a try_acquire that reads a clock not later than last_refill adds no
\* token, removes none and leaves last_refill in its refill step; hence
\* last_refill never decreases over any sequence of calls.
C40_ClockRegression ==
  [][/\ \A t \in Threads :
          (Leaves(t, "ta_refill") /\ clock <= last_refill) =>
            /\ tokens' = tokens
            /\ last_refill' = last_refill
     /\ last_refill' >= last_refill]_vars

\* a try_acquire has read a clock that lies before last_refill
C40_Witness ==
  /\ inst = "TokenBucket"
  /\ clock < last_refill
  /\ \E t \in Threads : pc[t] = "ta_check" /\ tokens_to_add[t] < 0
====
